---------------------------- MODULE Spec2Model ----------------------------
(***************************************************************************)
(* A model of the news ingestion pipeline of glebtumanov/sitemap_parser.   *)
(*                                                                         *)
(*   Spec       the batch-mode embedding job manager and its JSON ledger   *)
(*              (get_embeddings_batch_mode.py): one orchestrating process  *)
(*              that can be started, crash, be interrupted and restarted,  *)
(*              the ledger file on disk and the batch API.                 *)
(*   FetchSpec  the page fetcher (get_content.py): process_pages, the      *)
(*              worker threads running process_page_raw_content and the    *)
(*              recursion of fetch_page_content.                           *)
(***************************************************************************)
EXTENDS Integers, Sequences, FiniteSets, TLC

VARIABLES
    \* ---- batch mode (get_embeddings_batch_mode.py) ----
    pc,            \* position of the orchestrating process ("down": no process)
    mode,          \* --mode of the running process: "create", "check" or "full"
    ret,           \* where save_batch_jobs returns to
    batch_jobs,    \* self.batch_jobs, the ledger in memory
    ledger_file,   \* batch_jobs.json on disk
    contents,      \* create_batches: the page ids get_unprocessed_contents returned
    i,             \* create_batches: offset of the current chunk in contents
    pending_jobs,  \* check_pending_batches: the copy of the pending list
    k,             \* check_pending_batches: index of the job being polled
    api_status,    \* batch API: per batch id, the status it last reported ("none": no such batch)
    api_pages,     \* batch API: the custom ids (page ids) of every batch
    embeddings,    \* content_embeddings: the page ids that have a row
    checkpointed,  \* batch ids whose record create_batches has written to the file
    \* ---- page fetcher (get_content.py) ----
    fpc,           \* process_pages: position of the main thread
    run_pages,     \* process_pages: the pages argument (page ids, in list order)
    dom_idx,       \* process_pages: index of the domain being processed
    batch_idx,     \* process_pages: index of the batch of that domain
    wstate,        \* per page: "new", "fetching", "fetched" or "done"
    retry,         \* per page: fetch_page_content's retry argument
    redirect_count,\* per page: fetch_page_content's redirect_count argument
    last_response, \* per page: the kind of the last HTTP response
    requests,      \* per page: HTTP requests issued in this run
    failures,      \* per page: requests of this run that raised RequestException
    content_info,  \* per page: the dict fetch_page_content returned
    raw_content,   \* news_pages_content.page_raw_content per page id
    is_error,      \* news_pages.is_error per page id
    writes,        \* per page: upserts into news_pages_content in this run
    \* ---- sitemap discovery (sitemap_parser.py) ----
    dpc,           \* position of process_master_sitemaps_file ("down": no process)
    masters_file,  \* the master sitemap URLs of sitemaps.txt, in file order
    mi,            \* index of the master sitemap being processed
    child_sitemaps,\* the list process_master_sitemap returned
    sitemaps,      \* table sitemaps: per sitemap URL its row, or NoRow
    news_pages,    \* table news_pages: the rows in insertion order (id_page = index)
    child,         \* per sitemap URL: the process_child_sitemap call of the pool
    total_pages,   \* process_master_sitemaps_file: total_pages
    hist,          \* history of the run, kept for stating properties
    \* ---- content extraction, stage 2 of get_content.py ----
    xpc,           \* process_pages of stage 2: position of the main thread
    x_pages,       \* the pages get_pages_for_content_extraction returned
    x_dom,         \* process_pages of stage 2: index of the domain
    x_batch,       \* process_pages of stage 2: index of the batch of that domain
    xstate,        \* per page: "new", "running", "read" or "done"
    x_read,        \* per page: what get_raw_content_from_db returned to the call
    page_raw_content, \* news_pages_content.page_raw_content per page id
    content,       \* news_pages_content.content per page id
    page_error,    \* news_pages.is_error per page id
    x_hist,        \* history of stage 2, kept for stating properties
    \* ---- synchronous embeddings (get_embeddings.py) ----
    spc,           \* process_all: position of the coroutine
    s_contents,    \* process_all: the page ids get_unprocessed_contents returned
    s_i,           \* process_all: offset of the current batch in contents
    s_task,        \* per page: state of its get_embedding task
    s_attempt,     \* per page: the loop variable attempt of get_embedding
    s_requests,    \* per page: embeddings.create requests issued in this run
    s_text,        \* per page: the content handed to the running get_embedding
    s_sent,        \* per page: processed_text, the input of the requests
    s_stats,       \* self.stats, the counters the properties speak of
    s_results,     \* process_batch: the page ids in results
    content_embeddings, \* table content_embeddings: the page ids that have a row
    \* ---- results of a batch job (get_embeddings_batch_mode.py) ----
    rpc,           \* process_batch_results: position
    r_output,      \* the lines of the job's output file
    r_n,           \* index of the line the loop is at
    r_buffer,      \* the list embeddings: page ids awaiting the next INSERT
    r_store,       \* table content_embeddings: the page ids the call has upserted
    r_counts,      \* successful_count and failed_count
    r_return,      \* the value returned and what ended the call
    \* ---- one call of fetch_xml or of fetch_page_content ----
    c_fn,          \* the function called ("none": no call yet)
    c_pc,          \* "idle", "requesting" or "done"
    c_url,         \* the domain of the URL the next request goes to
    c_cookies,     \* the domain whose cookie file the cookies were loaded from
    c_attempt,     \* fetch_xml: attempt; fetch_page_content: retry
    c_redirect_count, \* redirect_count
    c_last,        \* the kind of the last response
    c_result,      \* what the call returned
    c_sent,        \* the requests sent: the URL's domain and the cookies' domain
    c_requests,    \* the number of requests.get calls of the call
    \* ---- the blocking process_batch of get_embeddings_batch_mode.py ----
    b_pc,          \* "idle", "loop", "results" or "done"
    b_now,         \* time.time() - start_time
    b_wait_time,   \* wait_time
    b_batch,       \* the status of the batch last retrieved ("none": no batch)
    b_stored,      \* the number of embeddings the call has stored
    b_return,      \* the value process_batch returned and what ended the wait
    \* ---- pool workers inside save_news_page of sitemap_parser.py ----
    n_pc,          \* per worker: "idle", "lookup", "insert", "commit" or "done"
    n_url,         \* per worker: page_url of the call
    n_seen,        \* per worker: the id the SELECT found (0: no row)
    n_out,         \* per worker: what the last call returned and how it ended
    n_calls,       \* per worker: the number of calls made
    n_rows,        \* the committed rows of news_pages: their page_url, by id
    n_pending      \* per worker: the page_url of its uncommitted INSERT

ledgerVars == <<pc, mode, ret, batch_jobs, ledger_file, contents, i, pending_jobs,
                k, api_status, api_pages, embeddings, checkpointed>>
fetchVars == <<fpc, run_pages, dom_idx, batch_idx, wstate, retry, redirect_count,
               last_response, requests, failures, content_info, raw_content,
               is_error, writes>>
discVars == <<dpc, masters_file, mi, child_sitemaps, sitemaps, news_pages, child, total_pages, hist>>
extractVars == <<xpc, x_pages, x_dom, x_batch, xstate, x_read, page_raw_content,
                 content, page_error, x_hist>>
syncVars == <<spc, s_contents, s_i, s_task, s_attempt, s_requests, s_text, s_sent,
              s_stats, s_results, content_embeddings>>
resultVars == <<rpc, r_output, r_n, r_buffer, r_store, r_counts, r_return>>
callVars == <<c_fn, c_pc, c_url, c_cookies, c_attempt, c_redirect_count, c_last,
              c_result, c_sent, c_requests>>
waitVars == <<b_pc, b_now, b_wait_time, b_batch, b_stored, b_return>>
raceVars == <<n_pc, n_url, n_seen, n_out, n_calls, n_rows, n_pending>>
vars == <<ledgerVars, fetchVars, discVars, extractVars, syncVars, resultVars, callVars,
          waitVars, raceVars>>

(***************************************************************************)
(* Helpers on sequences and sets.                                          *)
(***************************************************************************)
Min(a, b) == IF a <= b THEN a ELSE b

Range(s) == {s[n] : n \in DOMAIN s}

RECURSIVE SortedSeq(_)
\* The elements of a finite set of integers as an ascending sequence.
SortedSeq(S) ==
    IF S = {} THEN <<>>
    ELSE LET m == CHOOSE x \in S : \A y \in S : x <= y
         IN <<m>> \o SortedSeq(S \ {m})


\* The list left as it is.
RemoveNothing(s, x) == s

RECURSIVE RemoveFirst(_, _)
\* list.remove(x): the list without its first element equal to x.
RemoveFirst(s, x) ==
    IF s = <<>> THEN <<>>
    ELSE IF Head(s) = x THEN Tail(s)
    ELSE <<Head(s)>> \o RemoveFirst(Tail(s), x)

(***************************************************************************)
(*                    BATCH MODE: the store and the API                    *)
(***************************************************************************)
\* Bounds of the batch-mode model.
NPages == 2
MaxJobs == 2
\* Scaled stand-ins of BATCH_SIZE = 100 and TOTAL_LIMIT = 1000 (lines 35, 43),
\* chosen so that one create_batches run cuts its selection into two chunks.
BATCH_SIZE == 1
TOTAL_LIMIT == 2

CONTENT_MIN_LENGTH == 500

\* Page 0 is a page whose extracted content is shorter than the floor; the
\* pages 1..NPages have content of sufficient length.
EmbPages == 0..NPages
ContentLength(p) == p * CONTENT_MIN_LENGTH
PageDomain(p) == IF p % 2 = 1 THEN "d1" ELSE "d2"
TokenCount(p) == p

RECURSIVE TokensOf(_)
\* The token counts of a set of pages, summed.
TokensOf(S) ==
    IF S = {} THEN 0
    ELSE LET x == CHOOSE y \in S : TRUE
         IN TokenCount(x) + TokensOf(S \ {x})

BatchIds == 1..MaxJobs
TerminalStatuses == {"completed", "failed", "expired", "cancelled"}

EmptyLedger == [pending |-> <<>>, completed |-> <<>>, failed |-> <<>>]

\* The file on disk: missing, a complete JSON document, or a truncated one.
FileMissing == [state |-> "missing", data |-> EmptyLedger]
FileTruncated == [state |-> "truncated", data |-> EmptyLedger]
FileHolding(ledger) == [state |-> "complete", data |-> ledger]

PendingIds(ledger) ==
    UNION {Range(ledger.pending[n].page_ids) : n \in DOMAIN ledger.pending}

BatchIdsOf(list) == {list[n].batch_id : n \in DOMAIN list}

\* load_batch_jobs without its try/except: json.load's exception escapes.
load_batch_jobs_no_handler(file) ==
    IF file.state # "missing"
    THEN IF file.state = "complete"
         THEN [raised |-> FALSE, value |-> file.data]
         ELSE [raised |-> TRUE, value |-> EmptyLedger]
    ELSE [raised |-> FALSE, value |-> EmptyLedger]

\* load_batch_jobs: the value returned, and whether an exception escaped.
load_batch_jobs(file) ==
    IF file.state # "missing"                                   \* os.path.exists
    THEN IF file.state = "complete"
         THEN [raised |-> FALSE, value |-> file.data]           \* json.load
         ELSE [raised |-> FALSE, value |-> EmptyLedger]         \* except Exception
    ELSE [raised |-> FALSE, value |-> EmptyLedger]

\* The selection query without its NOT IN clause.
get_unprocessed_contents_no_exclusion(ledger, emb) ==
    LET rows == {p \in EmbPages : p \notin emb
                                  /\ ContentLength(p) >= CONTENT_MIN_LENGTH}
        ordered == SortedSeq(rows)
    IN SubSeq(ordered, 1, Min(Len(ordered), TOTAL_LIMIT))

\* The page ids of the rows the query returns, in the query's order
\* (ascending page id stands for descending publication date).
get_unprocessed_contents(ledger, emb) ==
    LET pending_ids == PendingIds(ledger)
        \* line 155: an empty list is passed as [0]
        excluded == IF pending_ids = {} THEN {0} ELSE pending_ids
        rows == {p \in EmbPages : p \notin emb
                                  /\ ContentLength(p) >= CONTENT_MIN_LENGTH
                                  /\ p \notin excluded}
        ordered == SortedSeq(rows)
    IN SubSeq(ordered, 1, Min(Len(ordered), TOTAL_LIMIT))

\* prepare_batch_file: the page ids written to the JSONL file and the token
\* count of every domain in it.
prepare_batch_file(chunk) ==
    LET ids == SelectSeq(chunk, LAMBDA p : ContentLength(p) > 0)
        doms == {PageDomain(p) : p \in Range(ids)}
        toks(d) == TokensOf({p \in Range(ids) : PageDomain(p) = d})
    IN [page_ids |-> ids, domain_tokens |-> [d \in doms |-> toks(d)]]

Chunk(list, from) == SubSeq(list, from + 1, Min(Len(list), from + BATCH_SIZE))

NextBatchId == Cardinality({b \in BatchIds : api_status[b] # "none"}) + 1

Locals0 ==
    /\ contents' = <<>>
    /\ i' = 0
    /\ pending_jobs' = <<>>
    /\ k' = 0

LedgerInit ==
    /\ pc = "down"
    /\ mode = "full"
    /\ ret = "exit"
    /\ batch_jobs = EmptyLedger
    /\ ledger_file = FileMissing
    /\ contents = <<>>
    /\ i = 0
    /\ pending_jobs = <<>>
    /\ k = 0
    /\ api_status = [b \in BatchIds |-> "none"]
    /\ api_pages = [b \in BatchIds |-> {}]
    /\ embeddings = {}
    /\ checkpointed = {}

(***************************************************************************)
(*              BATCH MODE: the orchestrating process                      *)
(***************************************************************************)
\* main and EmbeddingProcessor.__init__: a process is started with --mode m
\* and loads the ledger.  An exception escaping the constructor is fatal.
Start(m) ==
    /\ pc \in {"down", "fatal"}
    /\ LET r == load_batch_jobs(ledger_file)
       IN IF r.raised
          THEN /\ pc' = "fatal"
               /\ UNCHANGED <<mode, batch_jobs>>
          ELSE /\ pc' = "idle"
               /\ mode' = m
               /\ batch_jobs' = r.value
    /\ UNCHANGED <<ret, ledger_file, contents, i, pending_jobs, k, api_status,
                   api_pages, embeddings, checkpointed>>
    /\ UNCHANGED <<fetchVars, discVars, extractVars, syncVars, resultVars,
                   callVars, waitVars, raceVars>>

\* process_all: the first operation of the mode.
ProcessAll ==
    /\ pc = "idle"
    /\ pc' = IF mode = "check" THEN "ck_start" ELSE "cb_start"
    /\ UNCHANGED <<mode, ret, batch_jobs, ledger_file, contents, i, pending_jobs, k,
                   api_status, api_pages, embeddings, checkpointed>>
    /\ UNCHANGED <<fetchVars, discVars, extractVars, syncVars, resultVars,
                   callVars, waitVars, raceVars>>

\* Where process_all goes when create_batches returns.
AfterCreate == IF mode = "full" THEN "ck_start" ELSE "exit"

\* create_batches, lines 412-420: the selection.
CbSelect ==
    /\ pc = "cb_start"
    /\ LET c == get_unprocessed_contents(batch_jobs, embeddings)
       IN IF Len(c) = 0
          THEN pc' = AfterCreate /\ contents' = <<>>
          ELSE pc' = "cb_submit" /\ contents' = c
    /\ i' = 0
    /\ UNCHANGED <<mode, ret, batch_jobs, ledger_file, pending_jobs, k,
                   api_status, api_pages, embeddings, checkpointed>>
    /\ UNCHANGED <<fetchVars, discVars, extractVars, syncVars, resultVars,
                   callVars, waitVars, raceVars>>

\* The job record of line 438 (input_file_id and created_at carry no behaviour).
JobInfo(b, prep) ==
    [batch_id |-> b, status |-> "pending", page_ids |-> prep.page_ids,
     domain_tokens |-> prep.domain_tokens]

\* create_batches, lines 427-448, for the chunk at offset i: prepare_batch_file,
\* upload_batch_file and create_batch_job succeed, the record is appended to
\* pending and save_batch_jobs is called.
CbSubmitOk ==
    /\ pc = "cb_submit"
    /\ NextBatchId <= MaxJobs
    /\ LET b == NextBatchId
           prep == prepare_batch_file(Chunk(contents, i))
       IN /\ api_status' = [api_status EXCEPT ![b] = "in_progress"]
          /\ api_pages' = [api_pages EXCEPT ![b] = Range(prep.page_ids)]
          /\ batch_jobs' = [batch_jobs EXCEPT
                               !.pending = Append(@, JobInfo(b, prep))]
    /\ pc' = "save_open"
    /\ ret' = "cb_next"
    /\ UNCHANGED <<mode, ledger_file, contents, i, pending_jobs, k, embeddings,
                   checkpointed>>
    /\ UNCHANGED <<fetchVars, discVars, extractVars, syncVars, resultVars,
                   callVars, waitVars, raceVars>>

\* create_batches, lines 427-435 and 456-457: prepare_batch_file,
\* upload_batch_file or create_batch_job raises; no job exists, the handler
\* logs and the loop goes on with the next chunk.
CbSubmitFail ==
    /\ pc = "cb_submit"
    /\ pc' = "cb_next"
    /\ UNCHANGED <<mode, ret, batch_jobs, ledger_file, contents, i, pending_jobs, k,
                   api_status, api_pages, embeddings, checkpointed>>
    /\ UNCHANGED <<fetchVars, discVars, extractVars, syncVars, resultVars,
                   callVars, waitVars, raceVars>>

\* create_batches, line 423: the loop goes to the next chunk or ends.
CbNext ==
    /\ pc = "cb_next"
    /\ IF i + BATCH_SIZE >= Len(contents)
       THEN pc' = AfterCreate /\ i' = 0 /\ contents' = <<>>
       ELSE pc' = "cb_submit" /\ i' = i + BATCH_SIZE /\ contents' = contents
    /\ UNCHANGED <<mode, ret, batch_jobs, ledger_file, pending_jobs, k,
                   api_status, api_pages, embeddings, checkpointed>>
    /\ UNCHANGED <<fetchVars, discVars, extractVars, syncVars, resultVars,
                   callVars, waitVars, raceVars>>

\* What is left of a process that ended: its memory is gone.
ProcessGone ==
    /\ pc' = "down"
    /\ mode' = "full"
    /\ batch_jobs' = EmptyLedger
    /\ ret' = "exit"
    /\ Locals0

\* save_batch_jobs, line 127: open(BATCH_INFO_FILE, 'w') truncates the file.
SaveOpenOk ==
    /\ pc = "save_open"
    /\ ledger_file' = FileTruncated
    /\ pc' = "save_write"
    /\ UNCHANGED <<mode, ret, batch_jobs, contents, i, pending_jobs, k, api_status,
                   api_pages, embeddings, checkpointed>>
    /\ UNCHANGED <<fetchVars, discVars, extractVars, syncVars, resultVars,
                   callVars, waitVars, raceVars>>

\* save_batch_jobs, lines 130-131: open raises, the error is logged and the
\* caller goes on; the file is as it was.
SaveOpenFail ==
    /\ pc = "save_open"
    /\ IF ret = "down"
       THEN ProcessGone
       ELSE pc' = ret /\ UNCHANGED <<mode, ret, batch_jobs, contents, i, pending_jobs, k>>
    /\ UNCHANGED <<ledger_file, api_status, api_pages, embeddings, checkpointed>>
    /\ UNCHANGED <<fetchVars, discVars, extractVars, syncVars, resultVars,
                   callVars, waitVars, raceVars>>

\* save_batch_jobs, line 128: json.dump writes the whole ledger.
SaveWriteOk ==
    /\ pc = "save_write"
    /\ ledger_file' = FileHolding(batch_jobs)
    /\ checkpointed' = IF ret = "cb_next"
                       THEN checkpointed \cup BatchIdsOf(batch_jobs.pending)
                       ELSE checkpointed
    /\ IF ret = "down"
       THEN ProcessGone
       ELSE pc' = ret /\ UNCHANGED <<mode, ret, batch_jobs, contents, i, pending_jobs, k>>
    /\ UNCHANGED <<api_status, api_pages, embeddings>>
    /\ UNCHANGED <<fetchVars, discVars, extractVars, syncVars, resultVars,
                   callVars, waitVars, raceVars>>

\* save_batch_jobs, lines 130-131: the write raises part-way (disk full, I/O
\* error); the error is logged and the file stays truncated.
SaveWriteFail ==
    /\ pc = "save_write"
    /\ IF ret = "down"
       THEN ProcessGone
       ELSE pc' = ret /\ UNCHANGED <<mode, ret, batch_jobs, contents, i, pending_jobs, k>>
    /\ UNCHANGED <<ledger_file, api_status, api_pages, embeddings, checkpointed>>
    /\ UNCHANGED <<fetchVars, discVars, extractVars, syncVars, resultVars,
                   callVars, waitVars, raceVars>>

\* check_pending_batches, lines 465-472.
CkBegin ==
    /\ pc = "ck_start"
    /\ IF batch_jobs.pending = <<>>
       THEN pc' = "exit" /\ UNCHANGED <<pending_jobs, k>>
       ELSE /\ pc' = "ck_poll"
            /\ pending_jobs' = batch_jobs.pending
            /\ k' = 1
    /\ UNCHANGED <<mode, ret, batch_jobs, ledger_file, contents, i, api_status,
                   api_pages, embeddings, checkpointed>>
    /\ UNCHANGED <<fetchVars, discVars, extractVars, syncVars, resultVars,
                   callVars, waitVars, raceVars>>

\* check_batch_status: what batches.retrieve can report for batch b.  A job
\* last seen in progress may have reached a final status since; a final
\* status stays.  "error": the request raises (lines 306-308).
check_batch_status(b) ==
    (IF api_status[b] = "in_progress"
     THEN {"in_progress"} \cup TerminalStatuses
     ELSE {api_status[b]}) \cup {"error"}

\* The test of line 480 taking a failed status request for a final status.
IsTerminalOrError(status) ==
    status \in {"completed", "failed", "expired", "cancelled", "error"}

\* The test of line 480 without the expired status.
IsTerminalNotExpired(status) == status \in {"completed", "failed", "cancelled"}

\* Whether check_pending_batches moves a job polled with this status (line 480).
IsTerminal(status) == status \in {"completed", "failed", "expired", "cancelled"}

\* check_pending_batches, lines 474-496: one iteration of the loop.  A job
\* polled as completed has its results processed (process_batch_results
\* upserts the embeddings of the items that succeeded: any subset, none when
\* the download or the parsing raises) and is appended to completed; one
\* polled as failed, expired or cancelled is appended to failed; either is
\* removed from pending.  After the last job the ledger is saved (line 499).
CkPoll ==
    /\ pc = "ck_poll"
    /\ LET job == pending_jobs[k]
           b == job.batch_id
       IN \E status \in check_batch_status(b) :
            /\ api_status' = IF status = "error" THEN api_status
                             ELSE [api_status EXCEPT ![b] = status]
            /\ IF IsTerminal(status)
               THEN /\ \E ok \in SUBSET Range(job.page_ids) :
                         /\ status # "completed" => ok = {}
                         /\ embeddings' = embeddings \cup ok
                         /\ batch_jobs' =
                               IF status = "completed"
                               THEN [batch_jobs EXCEPT
                                       !.completed = Append(@,
                                           [batch_id |-> b, status |-> status,
                                            page_ids |-> job.page_ids,
                                            domain_tokens |-> job.domain_tokens,
                                            processed_count |-> Cardinality(ok)]),
                                       !.pending = RemoveFirst(@, job)]
                               ELSE [batch_jobs EXCEPT
                                       !.failed = Append(@, [job EXCEPT !.status = status]),
                                       !.pending = RemoveFirst(@, job)]
                    /\ checkpointed' = checkpointed \ {b}
               ELSE UNCHANGED <<embeddings, batch_jobs, checkpointed>>
    /\ IF k = Len(pending_jobs)
       THEN pc' = "save_open" /\ ret' = "exit" /\ k' = 0 /\ pending_jobs' = <<>>
       ELSE pc' = "ck_poll" /\ ret' = ret /\ k' = k + 1
                           /\ pending_jobs' = pending_jobs
    /\ UNCHANGED <<mode, ledger_file, contents, i, api_pages>>
    /\ UNCHANGED <<fetchVars, discVars, extractVars, syncVars, resultVars,
                   callVars, waitVars, raceVars>>

\* main, lines 763-766: process_all has returned; the finally clause saves
\* the ledger and the process ends.
Exit ==
    /\ pc = "exit"
    /\ pc' = "save_open"
    /\ ret' = "down"
    /\ Locals0
    /\ UNCHANGED <<mode, batch_jobs, ledger_file, api_status, api_pages, embeddings,
                   checkpointed>>
    /\ UNCHANGED <<fetchVars, discVars, extractVars, syncVars, resultVars,
                   callVars, waitVars, raceVars>>

Running == pc \notin {"down", "fatal"}

\* main, lines 759-766: KeyboardInterrupt (or an exception escaping
\* process_all) unwinds to the finally clause, which saves the ledger.
Interrupt ==
    /\ Running
    /\ pc \notin {"idle", "exit"}
    /\ ret # "down"
    /\ pc' = "save_open"
    /\ ret' = "down"
    /\ Locals0
    /\ UNCHANGED <<mode, batch_jobs, ledger_file, api_status, api_pages, embeddings,
                   checkpointed>>
    /\ UNCHANGED <<fetchVars, discVars, extractVars, syncVars, resultVars,
                   callVars, waitVars, raceVars>>

\* The process is killed (SIGKILL, power loss): nothing more is executed.
Crash ==
    /\ Running
    /\ ProcessGone
    /\ UNCHANGED <<ledger_file, api_status, api_pages, embeddings, checkpointed>>
    /\ UNCHANGED <<fetchVars, discVars, extractVars, syncVars, resultVars,
                   callVars, waitVars, raceVars>>

LedgerNext ==
    \/ \E m \in {"create", "check", "full"} : Start(m)
    \/ ProcessAll
    \/ CbSelect
    \/ CbSubmitOk
    \/ CbSubmitFail
    \/ CbNext
    \/ SaveOpenOk
    \/ SaveOpenFail
    \/ SaveWriteOk
    \/ SaveWriteFail
    \/ CkBegin
    \/ CkPoll
    \/ Exit
    \/ Interrupt
    \/ Crash

(***************************************************************************)
(*                     PAGE FETCHER (get_content.py)                       *)
(***************************************************************************)
\* Bound of the fetcher model: the pages of the store.  Page 2 is the one
\* page of domain "d2", the others are pages of domain "d1".
NFetchPages == 4
\* Scaled stand-in of NUM_PAGES_FROM_DOMAIN = 1000 (line 21).
NUM_PAGES_FROM_DOMAIN == 3

MAX_RETRIES == 3
MAX_CONCURRENT_PER_DOMAIN == 2
MAX_REDIRECTS == 5

FetchPageIds == 1..NFetchPages
FetchDomain(p) == IF p = 2 THEN "d2" ELSE "d1"

\* What one requests.get can bring:
\*   "ok"        a 2xx response
\*   "redirect"  a 3xx response with a Location (response.is_redirect)
\*   "other3xx"  a 3xx response without a usable Location
\*   "error"     a RequestException: no response, or 4xx/5xx at raise_for_status
Responses == {"ok", "redirect", "other3xx", "error"}

NoInfo == [page_raw_content |-> "unset", is_error |-> FALSE]

\* The selection of stage 1 without its test of is_error.
get_pages_for_raw_content_with_errors(raw, err) ==
    LET cand == {p \in FetchPageIds : raw[p] \in {"norow", "NULL"}}
        rank(p) == Cardinality({q \in cand : FetchDomain(q) = FetchDomain(p) /\ q <= p})
    IN SortedSeq({p \in cand : rank(p) <= NUM_PAGES_FROM_DOMAIN})

\* get_pages_for_raw_content: the page ids selected, in the query's order
\* (ascending page id stands for descending publication date).
get_pages_for_raw_content(raw, err) ==
    LET cand == {p \in FetchPageIds : raw[p] \in {"norow", "NULL"} /\ ~err[p]}
        rank(p) == Cardinality({q \in cand : FetchDomain(q) = FetchDomain(p) /\ q <= p})
    IN SortedSeq({p \in cand : rank(p) <= NUM_PAGES_FROM_DOMAIN})

RECURSIVE DomainOrder(_)
\* process_pages, lines 603-605: the keys of domain_pages in insertion order.
DomainOrder(pages) ==
    IF pages = <<>> THEN <<>>
    ELSE LET d == FetchDomain(Head(pages))
         IN <<d>> \o DomainOrder(SelectSeq(Tail(pages), LAMBDA q : FetchDomain(q) # d))

\* domain_pages[d]
DomainPages(pages, d) == SelectSeq(pages, LAMBDA q : FetchDomain(q) = d)

\* process_pages, lines 615-616: the batches of one domain's page list.
Batches(list) ==
    [j \in 1..((Len(list) + MAX_CONCURRENT_PER_DOMAIN - 1) \div MAX_CONCURRENT_PER_DOMAIN) |->
        SubSeq(list, (j - 1) * MAX_CONCURRENT_PER_DOMAIN + 1,
               Min(Len(list), j * MAX_CONCURRENT_PER_DOMAIN))]

CurrentDomainBatches == Batches(DomainPages(run_pages, DomainOrder(run_pages)[dom_idx]))
CurrentBatch == CurrentDomainBatches[batch_idx]

\* The wait of line 627 without waiting.
BatchFinishedNoWait(batch) == TRUE

\* process_pages, lines 627-631: as_completed has yielded every future of the batch.
BatchFinished(batch) == \A n \in DOMAIN batch : wstate[batch[n]] = "done"

\* The retry test with the bound off by one.
ShouldRetryOffByOne(r) == r < MAX_RETRIES

\* fetch_page_content, line 494.
ShouldRetry(r) == r < MAX_RETRIES - 1

\* fetch_page_content, line 457.
FollowsRedirect(resp, rc) == resp = "redirect" /\ rc < MAX_REDIRECTS

\* The test of line 531 as one that saves only what was fetched.
ShouldSaveOnlyFetched(info) == info.page_raw_content # "NULL"

\* process_page_raw_content, line 531: fetch_page_content always returns a
\* dict holding id_page.
ShouldSave(info) == info.page_raw_content # "unset"

FetchInit ==
    /\ fpc = "idle"
    /\ run_pages = <<>>
    /\ dom_idx = 0
    /\ batch_idx = 0
    /\ wstate = [p \in FetchPageIds |-> "new"]
    /\ retry = [p \in FetchPageIds |-> 0]
    /\ redirect_count = [p \in FetchPageIds |-> 0]
    /\ last_response = [p \in FetchPageIds |-> "none"]
    /\ requests = [p \in FetchPageIds |-> 0]
    /\ failures = [p \in FetchPageIds |-> 0]
    /\ content_info = [p \in FetchPageIds |-> NoInfo]
    /\ raw_content = [p \in FetchPageIds |-> "norow"]
    /\ is_error = [p \in FetchPageIds |-> FALSE]
    /\ writes = [p \in FetchPageIds |-> 0]

\* main, lines 770-776: stage 1 selects the pages and hands them to
\* process_pages.
StartRun ==
    /\ fpc = "idle"
    /\ LET pages == get_pages_for_raw_content(raw_content, is_error)
       IN /\ run_pages' = pages
          /\ IF pages = <<>>
             THEN fpc' = "idle" /\ dom_idx' = 0 /\ batch_idx' = 0
             ELSE fpc' = "submit" /\ dom_idx' = 1 /\ batch_idx' = 1
    /\ wstate' = [p \in FetchPageIds |-> "new"]
    /\ writes' = [p \in FetchPageIds |-> 0]
    /\ UNCHANGED <<retry, redirect_count, last_response, requests, failures,
                   content_info, raw_content, is_error>>
    /\ UNCHANGED <<ledgerVars, discVars, extractVars, syncVars, resultVars,
                   callVars, waitVars, raceVars>>

\* process_pages, lines 621-624: executor.submit of the next page of the
\* current batch; a pool thread starts process_page_raw_content on it.
SubmitPage ==
    /\ fpc = "submit"
    /\ LET batch == CurrentBatch
           n == CHOOSE m \in DOMAIN batch :
                    /\ wstate[batch[m]] = "new"
                    /\ \A l \in 1..(m - 1) : wstate[batch[l]] # "new"
       IN /\ wstate' = [wstate EXCEPT ![batch[n]] = "fetching"]
          /\ fpc' = IF n = Len(batch) THEN "wait" ELSE "submit"
    /\ UNCHANGED <<run_pages, dom_idx, batch_idx, retry, redirect_count, last_response,
                   requests, failures, content_info, raw_content, is_error, writes>>
    /\ UNCHANGED <<ledgerVars, discVars, extractVars, syncVars, resultVars,
                   callVars, waitVars, raceVars>>

\* process_pages, lines 627-646: every future of the batch has completed;
\* the loop goes to the next batch of the domain, to the next domain, or
\* collects the results and returns.  The frames of the finished calls are
\* gone.
BatchDone ==
    /\ fpc = "wait"
    /\ BatchFinished(CurrentBatch)
    /\ LET done == Range(CurrentBatch)
           clear(f, v) == [p \in FetchPageIds |-> IF p \in done THEN v ELSE f[p]]
       IN /\ retry' = clear(retry, 0)
          /\ redirect_count' = clear(redirect_count, 0)
          /\ last_response' = clear(last_response, "none")
          /\ requests' = clear(requests, 0)
          /\ failures' = clear(failures, 0)
          /\ content_info' = clear(content_info, NoInfo)
    /\ IF batch_idx < Len(CurrentDomainBatches)
       THEN fpc' = "submit" /\ batch_idx' = batch_idx + 1 /\ dom_idx' = dom_idx
       ELSE IF dom_idx < Len(DomainOrder(run_pages))
            THEN fpc' = "submit" /\ batch_idx' = 1 /\ dom_idx' = dom_idx + 1
            ELSE fpc' = "idle" /\ batch_idx' = 0 /\ dom_idx' = 0
    /\ UNCHANGED <<run_pages, wstate, raw_content, is_error, writes>>
    /\ UNCHANGED <<ledgerVars, discVars, extractVars, syncVars, resultVars,
                   callVars, waitVars, raceVars>>

\* fetch_page_content, lines 446-516: one requests.get of the call for page p
\* and what the call does with the response.
Request(p, resp) ==
    /\ wstate[p] = "fetching"
    /\ requests' = [requests EXCEPT ![p] = @ + 1]
    /\ last_response' = [last_response EXCEPT ![p] = resp]
    /\ IF resp = "error"
       THEN \* except RequestException
            /\ failures' = [failures EXCEPT ![p] = @ + 1]
            /\ IF ShouldRetry(retry[p])
               THEN /\ retry' = [retry EXCEPT ![p] = @ + 1]
                    /\ UNCHANGED <<wstate, content_info, is_error>>
               ELSE \* lines 501-516: update_page_error_status, the error dict
                    /\ is_error' = [is_error EXCEPT ![p] = TRUE]
                    /\ content_info' = [content_info EXCEPT ![p] =
                            [page_raw_content |-> "NULL", is_error |-> TRUE]]
                    /\ wstate' = [wstate EXCEPT ![p] = "fetched"]
                    /\ UNCHANGED retry
            /\ UNCHANGED redirect_count
       ELSE IF FollowsRedirect(resp, redirect_count[p])
       THEN \* lines 457-475: the recursive call on the Location
            /\ redirect_count' = [redirect_count EXCEPT ![p] = @ + 1]
            /\ UNCHANGED <<failures, retry, wstate, content_info, is_error>>
       ELSE \* lines 478-491: raise_for_status passes 2xx and 3xx; the body
            \* of the response is returned as the page's raw content
            /\ content_info' = [content_info EXCEPT ![p] =
                    [page_raw_content |-> IF resp = "ok" THEN "html" ELSE "body3xx",
                     is_error |-> FALSE]]
            /\ wstate' = [wstate EXCEPT ![p] = "fetched"]
            /\ UNCHANGED <<failures, retry, redirect_count, is_error>>
    /\ UNCHANGED <<fpc, run_pages, dom_idx, batch_idx, raw_content, writes>>
    /\ UNCHANGED <<ledgerVars, discVars, extractVars, syncVars, resultVars,
                   callVars, waitVars, raceVars>>

\* process_page_raw_content, lines 530-561: the upsert of
\* save_raw_content_to_db, the second update_page_error_status of a failed
\* fetch, and the return.
SaveRawContent(p) ==
    /\ wstate[p] = "fetched"
    /\ IF ShouldSave(content_info[p])
       THEN /\ raw_content' = [raw_content EXCEPT ![p] = content_info[p].page_raw_content]
            /\ writes' = [writes EXCEPT ![p] = @ + 1]
            /\ is_error' = IF content_info[p].page_raw_content = "NULL"
                              /\ content_info[p].is_error
                           THEN [is_error EXCEPT ![p] = TRUE]
                           ELSE is_error
       ELSE UNCHANGED <<raw_content, writes, is_error>>
    /\ wstate' = [wstate EXCEPT ![p] = "done"]
    /\ UNCHANGED <<fpc, run_pages, dom_idx, batch_idx, retry, redirect_count,
                   last_response, requests, failures, content_info>>
    /\ UNCHANGED <<ledgerVars, discVars, extractVars, syncVars, resultVars,
                   callVars, waitVars, raceVars>>

FetchNext ==
    \/ StartRun
    \/ SubmitPage
    \/ BatchDone
    \/ \E p \in FetchPageIds, resp \in Responses : Request(p, resp)
    \/ \E p \in FetchPageIds : SaveRawContent(p)

(***************************************************************************)
(*                 SITEMAP DISCOVERY (sitemap_parser.py)                   *)
(***************************************************************************)
\* The sitemap URLs of the modelled web.  "m1", "m2" and "m3" are the master
\* sitemaps sitemaps.txt can list; the index served at "m1" lists "c1", "c2",
\* "cat" (a URL ending in category-sitemap.xml), "m2" and "m3".
SitemapUrls == {"m1", "m2", "m3", "c1", "c2", "cat"}
MasterUrls == {"m1", "m2", "m3"}

\* The contents sitemaps.txt can have.
MasterFiles == {<<"m2", "m1">>, <<"m1", "m2">>, <<"m2", "m1", "m3">>}

\* get_domain: the netloc of the URL.
get_domain(u) == IF u = "m2" THEN "B" ELSE "A"

\* should_exclude_sitemap, lines 560-566: the URL patterns.
ExcludedByPattern(u) == u = "cat"

\* One <url> element: its <loc> ("none": no location found) and what
\* extract_publication_date makes of it: "none" (no resolvable date), "stale"
\* (older than min_date) or "fresh" (not older).
Entry(loc, date) == [loc |-> loc, date |-> date]

NoDoc == [sitemaps |-> <<>>, urls |-> <<>>, ok |-> FALSE]
Document(sm, urls) == [sitemaps |-> sm, urls |-> urls, ok |-> TRUE]

\* The documents a server may answer with for a sitemap URL.  The urlset
\* at "m2" changes over time: with or without its recent entry.
Versions(u) ==
    CASE u = "m1" -> {Document(<<"c1", "c2", "cat", "m2", "m3">>, <<>>)}
      [] u = "m2" -> {Document(<<>>, <<Entry("q2", "stale"), Entry("q1", "fresh"),
                                       Entry("q3", "none")>>),
                      Document(<<>>, <<Entry("q2", "stale"), Entry("q3", "none")>>)}
      [] u = "c1" -> {Document(<<>>, <<Entry("p2", "stale"), Entry("p1", "fresh"),
                                       Entry("p3", "none"), Entry("none", "fresh")>>)}
      [] u = "c2" -> {Document(<<>>, <<Entry("p4", "stale")>>)}
      [] u = "m3" -> {Document(<<>>, <<Entry("r1", "fresh")>>)}
      [] OTHER -> {Document(<<>>, <<>>)}

\* fetch_xml: the parsed document, or None (NoDoc) after MAX_RETRIES failed
\* attempts, too many redirects or a parse error.
fetch_xml(u) == Versions(u) \cup {NoDoc}

NoRow == [exists |-> FALSE, is_master |-> FALSE, is_fresh |-> FALSE, parent_id |-> "none"]

\* The Sitemap dataclass (lines 102-109).
Sitemap(url, is_master, parent_id, is_fresh) ==
    [url |-> url, is_master |-> is_master, parent_id |-> parent_id, is_fresh |-> is_fresh]

\* save_sitemap: the table after the call (the id returned is the URL's row).
save_sitemap(rows, sm) ==
    LET fresh == IF sm.is_master THEN TRUE ELSE sm.is_fresh          \* lines 341-342
    IN IF rows[sm.url].exists
       THEN IF sm.is_master                                          \* lines 354-364
            THEN [rows EXCEPT ![sm.url].is_fresh = TRUE]
            ELSE rows
       ELSE [rows EXCEPT ![sm.url] =                                 \* lines 367-381
                [exists |-> TRUE, is_master |-> sm.is_master, is_fresh |-> fresh,
                 parent_id |-> sm.parent_id]]

\* update_sitemap_freshness
update_sitemap_freshness(rows, u, is_fresh) ==
    IF rows[u].exists THEN [rows EXCEPT ![u].is_fresh = is_fresh] ELSE rows

\* is_sitemap_marked_as_not_fresh
is_sitemap_marked_as_not_fresh(rows, u) ==
    IF ~rows[u].exists THEN FALSE
    ELSE IF rows[u].is_master THEN FALSE
    ELSE ~rows[u].is_fresh

\* should_exclude_sitemap
should_exclude_sitemap(rows, u) ==
    ExcludedByPattern(u) \/ is_sitemap_marked_as_not_fresh(rows, u)

\* is_new_domain: no row of table sitemaps has the domain.
is_new_domain(rows, domain) ==
    Cardinality({u \in SitemapUrls : rows[u].exists /\ get_domain(u) = domain}) = 0

RECURSIVE check_sitemap_freshness_any_date(_)
\* The freshness check with any resolvable date counting as recent.
check_sitemap_freshness_any_date(urls) ==
    IF urls = <<>> THEN FALSE
    ELSE IF Head(urls).date = "none" THEN check_sitemap_freshness_any_date(Tail(urls))
    ELSE TRUE

RECURSIVE check_sitemap_freshness_first_date(_)
\* The freshness check deciding on the first resolvable date alone.
check_sitemap_freshness_first_date(urls) ==
    IF urls = <<>> THEN FALSE
    ELSE IF Head(urls).date = "none" THEN check_sitemap_freshness_first_date(Tail(urls))
    ELSE Head(urls).date = "fresh"

RECURSIVE check_sitemap_freshness(_)
\* check_sitemap_freshness, lines 498-517: the loop over the url elements.
check_sitemap_freshness(urls) ==
    IF urls = <<>> THEN FALSE
    ELSE IF Head(urls).date = "none" THEN check_sitemap_freshness(Tail(urls))
    ELSE IF Head(urls).date = "fresh" THEN TRUE
    ELSE check_sitemap_freshness(Tail(urls))

\* The NewsPage dataclass (lines 111-116).
NewsPage(page_url, id_sitemap, publication_date) ==
    [page_url |-> page_url, id_sitemap |-> id_sitemap, publication_date |-> publication_date]

RowsWithUrl(pages, url) == {n \in DOMAIN pages : pages[n].page_url = url}

\* save_news_page without the lookup of lines 424-434.
save_news_page_no_lookup(pages, rows, np, domain) ==
    IF ~is_new_domain(rows, domain) /\ np.publication_date \in {"none", "stale"}
    THEN [pages |-> pages, result |-> 0]
    ELSE [pages |-> Append(pages, np), result |-> Len(pages) + 1]

\* save_news_page: the table after the call and the value returned (0: None).
save_news_page(pages, rows, np, domain) ==
    IF ~is_new_domain(rows, domain) /\ np.publication_date \in {"none", "stale"}
    THEN [pages |-> pages, result |-> 0]                              \* lines 415-419
    ELSE IF RowsWithUrl(pages, np.page_url) # {}
         THEN [pages |-> pages,                                       \* lines 431-434
               result |-> CHOOSE n \in RowsWithUrl(pages, np.page_url) :
                              \A l \in RowsWithUrl(pages, np.page_url) : n <= l]
         ELSE [pages |-> Append(pages, np), result |-> Len(pages) + 1] \* lines 437-457

\* What is recorded of the last save_news_page call of a thread.
NoSave == [page_url |-> "none", had_row |-> FALSE, prior_id |-> 0, result |-> 0,
           unchanged |-> TRUE]

\* The frame of one process_child_sitemap call.
NoCall == [state |-> "idle", doc |-> NoDoc, is_new_domain |-> FALSE, is_fresh |-> FALSE,
           idx |-> 0, page_count |-> 0, inserted |-> {}, last_save |-> NoSave,
           raised |-> FALSE]

\* History of a run:
\*   new_domains   domains that had no sitemap row when the run started
\*   new_children  child sitemaps process_master_sitemap inserted in this run
\*   judged        sitemaps whose freshness process_child_sitemap wrote in this run
\*   clean         no fetch_xml of this run has failed
\*   interrupted   child sitemaps persisted by a run that was interrupted, or
\*                 whose XML could not be fetched, and not judged since
NoHist == [new_domains |-> {}, new_children |-> {}, judged |-> {}, clean |-> TRUE,
           interrupted |-> {}]

DiscInit ==
    /\ dpc = "down"
    /\ masters_file = <<>>
    /\ mi = 0
    /\ child_sitemaps = <<>>
    /\ sitemaps = [u \in SitemapUrls |-> NoRow]
    /\ news_pages = <<>>
    /\ child = [u \in SitemapUrls |-> NoCall]
    /\ total_pages = 0
    /\ hist = NoHist

\* main and process_master_sitemaps_file, lines 960-980: a discovery run
\* starts and reads sitemaps.txt, which stays as the first run found it.
StartDiscovery ==
    /\ dpc = "down"
    /\ IF masters_file = <<>>
       THEN masters_file' \in MasterFiles
       ELSE masters_file' = masters_file
    /\ dpc' = "master"
    /\ mi' = 1
    /\ hist' = [hist EXCEPT
                  !.new_domains = {get_domain(u) : u \in SitemapUrls} \
                                  {get_domain(u) : u \in {v \in SitemapUrls : sitemaps[v].exists}},
                  !.new_children = {}, !.judged = {}, !.clean = TRUE]
    /\ UNCHANGED <<child_sitemaps, sitemaps, news_pages, child, total_pages>>
    /\ UNCHANGED <<ledgerVars, fetchVars, extractVars, syncVars, resultVars,
                   callVars, waitVars, raceVars>>

RECURSIVE MasterLoop(_, _, _)
\* process_master_sitemap, lines 622-699: the loop over the sitemap elements.
\* Gives the table and the list of child URLs after the elements locs.
MasterLoop(acc, locs, master) ==
    IF locs = <<>> THEN acc
    ELSE LET c == Head(locs)
         IN IF should_exclude_sitemap(acc.rows, c)                    \* line 655
            THEN MasterLoop(acc, Tail(locs), master)
            ELSE MasterLoop(
                    [rows |-> save_sitemap(acc.rows, Sitemap(c, FALSE, master, FALSE)),
                     list |-> Append(acc.list, c),
                     new |-> IF acc.rows[c].exists THEN acc.new ELSE acc.new \cup {c}],
                    Tail(locs), master)

\* process_master_sitemap for the master at index mi: the master row is
\* saved, the XML is fetched (doc) and the children are persisted and listed.
ProcessMaster ==
    /\ dpc = "master"
    /\ \E doc \in fetch_xml(masters_file[mi]) :
         LET m == masters_file[mi]
             rows1 == save_sitemap(sitemaps, Sitemap(m, TRUE, "none", TRUE))
             out == IF doc.ok
                    THEN MasterLoop([rows |-> rows1, list |-> <<>>, new |-> {}],
                                    doc.sitemaps, m)
                    ELSE [rows |-> rows1, list |-> <<>>, new |-> {}]   \* lines 586-588
         IN /\ sitemaps' = out.rows
            /\ child_sitemaps' = out.list
            /\ hist' = [hist EXCEPT !.new_children = @ \cup out.new,
                                    !.clean = @ /\ doc.ok]
    /\ dpc' = "filter"
    /\ UNCHANGED <<masters_file, mi, news_pages, child, total_pages>>
    /\ UNCHANGED <<ledgerVars, fetchVars, extractVars, syncVars, resultVars,
                   callVars, waitVars, raceVars>>

\* process_master_sitemaps_file, lines 995-1013: the list is filtered and
\* every URL left is submitted to the pool.
FilterAndSubmit ==
    /\ dpc = "filter"
    /\ LET filtered_child_sitemaps ==
               SelectSeq(child_sitemaps, LAMBDA c : ~should_exclude_sitemap(sitemaps, c))
       IN child' = [u \in SitemapUrls |->
                       IF u \in Range(filtered_child_sitemaps)
                       THEN [NoCall EXCEPT !.state = "queued"]
                       ELSE NoCall]
    /\ dpc' = "pool"
    /\ UNCHANGED <<masters_file, mi, child_sitemaps, sitemaps, news_pages, total_pages, hist>>
    /\ UNCHANGED <<ledgerVars, fetchVars, extractVars, syncVars, resultVars,
                   callVars, waitVars, raceVars>>

\* process_child_sitemap, lines 800-814: the exclusion check and fetch_xml.
ChildStart(u, doc) ==
    /\ dpc = "pool"
    /\ child[u].state = "queued"
    /\ IF should_exclude_sitemap(sitemaps, u)
       THEN /\ child' = [child EXCEPT ![u].state = "done"]
            /\ UNCHANGED hist
       ELSE IF ~doc.ok
       THEN /\ child' = [child EXCEPT ![u].state = "done"]
            /\ hist' = [hist EXCEPT !.clean = FALSE, !.interrupted = @ \cup {u}]
       ELSE /\ child' = [child EXCEPT ![u].state = "fetched", ![u].doc = doc]
            /\ UNCHANGED hist
    /\ UNCHANGED <<dpc, masters_file, mi, child_sitemaps, sitemaps, news_pages, total_pages>>
    /\ UNCHANGED <<ledgerVars, fetchVars, extractVars, syncVars, resultVars,
                   callVars, waitVars, raceVars>>

\* process_child_sitemap, lines 820-859 (called without parent_id): the
\* freshness verdict is computed and written to the sitemap's row.
ChildVerdict(u) ==
    /\ dpc = "pool"
    /\ child[u].state = "fetched"
    /\ LET new == is_new_domain(sitemaps, get_domain(u))
           is_fresh == IF new THEN TRUE ELSE check_sitemap_freshness(child[u].doc.urls)
       IN /\ sitemaps' = IF sitemaps[u].exists
                         THEN update_sitemap_freshness(sitemaps, u, is_fresh)
                         ELSE save_sitemap(sitemaps, Sitemap(u, FALSE, "none", is_fresh))
          /\ child' = [child EXCEPT
                         ![u].is_new_domain = new,
                         ![u].is_fresh = is_fresh,
                         ![u].state = IF is_fresh /\ child[u].doc.urls # <<>>
                                      THEN "pages" ELSE "done",
                         ![u].idx = IF is_fresh /\ child[u].doc.urls # <<>> THEN 1 ELSE 0]
    /\ hist' = [hist EXCEPT !.judged = @ \cup {u}, !.interrupted = @ \ {u}]
    /\ UNCHANGED <<dpc, masters_file, mi, child_sitemaps, news_pages, total_pages>>
    /\ UNCHANGED <<ledgerVars, fetchVars, extractVars, syncVars, resultVars,
                   callVars, waitVars, raceVars>>

\* process_child_sitemap, lines 838-842 and 953 (save_news_page, lines 411
\* and 421): a database call outside every try block raises (get_connection
\* re-raises the connection error, line 334); the exception ends the call,
\* future.result raises it and no page count is added (lines 1020-1024).
\* The rows the call has inserted stay.
ChildRaises(u) ==
    /\ dpc = "pool"
    /\ child[u].state \in {"fetched", "pages"}
    /\ child' = [child EXCEPT ![u].state = "done", ![u].raised = TRUE,
                              ![u].page_count = 0]
    /\ hist' = [hist EXCEPT !.clean = FALSE, !.interrupted = @ \cup {u}]
    /\ UNCHANGED <<dpc, masters_file, mi, child_sitemaps, sitemaps, news_pages, total_pages>>
    /\ UNCHANGED <<ledgerVars, fetchVars, extractVars, syncVars, resultVars,
                   callVars, waitVars, raceVars>>

\* The tests of the loop without the one on a missing date.
PassedToSaveWithoutDateTest(e, new) ==
    /\ e.loc # "none"
    /\ ~(~new /\ e.date = "stale")

\* process_child_sitemap, lines 894-938: the url entry reaches
\* save_news_page.
PassedToSave(e, new) ==
    /\ e.loc # "none"                                                 \* lines 917-919
    /\ e.date # "none"                                                \* lines 927-930
    /\ ~(~new /\ e.date = "stale")                                    \* lines 934-938

\* process_child_sitemap, lines 892-958: one iteration of the loop over the
\* url elements; after the last one the call returns page_count.
ChildPage(u) ==
    /\ dpc = "pool"
    /\ child[u].state = "pages"
    /\ LET c == child[u]
           e == c.doc.urls[c.idx]
           saved == PassedToSave(e, c.is_new_domain)
           r == save_news_page(news_pages, sitemaps, NewsPage(e.loc, u, e.date),
                               get_domain(u))
           prior == RowsWithUrl(news_pages, e.loc)
           last == c.idx = Len(c.doc.urls)
           nxt == [c EXCEPT !.state = IF last THEN "done" ELSE "pages",
                            !.idx = IF last THEN 0 ELSE c.idx + 1]
       IN IF saved
          THEN /\ news_pages' = r.pages
               /\ child' = [child EXCEPT ![u] =
                     [nxt EXCEPT
                        !.page_count = IF r.result # 0 THEN @ + 1 ELSE @,  \* lines 951-952
                        !.inserted = IF Len(r.pages) > Len(news_pages)
                                     THEN @ \cup {e.loc} ELSE @,
                        !.last_save =
                            [page_url |-> e.loc,
                             had_row |-> prior # {},
                             prior_id |-> IF prior = {} THEN 0
                                          ELSE CHOOSE n \in prior : \A l \in prior : n <= l,
                             result |-> r.result,
                             unchanged |-> SubSeq(r.pages, 1, Len(news_pages)) = news_pages
                                           /\ (prior # {} => r.pages = news_pages)]]]
          ELSE /\ child' = [child EXCEPT ![u] = nxt]
               /\ UNCHANGED news_pages
    /\ UNCHANGED <<dpc, masters_file, mi, child_sitemaps, sitemaps, total_pages, hist>>
    /\ UNCHANGED <<ledgerVars, fetchVars, extractVars, syncVars, resultVars,
                   callVars, waitVars, raceVars>>

RECURSIVE SumPageCounts(_)
\* The page counts of the futures of a set of URLs, summed (lines 1016-1021).
SumPageCounts(S) ==
    IF S = {} THEN 0
    ELSE LET u == CHOOSE v \in S : TRUE
         IN child[u].page_count + SumPageCounts(S \ {u})

\* The loop over the futures as one that a failed call ends.
PoolFinishedAtFirstFailure(ch) ==
    \/ \A u \in SitemapUrls : ch[u].state \in {"idle", "done"}
    \/ \E u \in SitemapUrls : ch[u].state = "done" /\ (ch[u].raised \/ ~ch[u].doc.ok)

\* process_master_sitemaps_file, lines 1012-1024: as_completed has yielded
\* every future, and the with block has waited for the pool.
PoolFinished(ch) == \A u \in SitemapUrls : ch[u].state \in {"idle", "done"}

\* process_master_sitemaps_file, lines 1012-1027: every future has
\* completed and its page_count is added to total_pages (that of a call
\* that raised is 0).
PoolDone ==
    /\ dpc = "pool"
    /\ PoolFinished(child)
    /\ total_pages' = total_pages + SumPageCounts({u \in SitemapUrls : child[u].state = "done"})
    /\ dpc' = "stats"
    /\ UNCHANGED <<masters_file, mi, child_sitemaps, sitemaps, news_pages, child, hist>>
    /\ UNCHANGED <<ledgerVars, fetchVars, extractVars, syncVars, resultVars,
                   callVars, waitVars, raceVars>>

\* process_master_sitemaps_file, line 980: the next master sitemap, or the
\* end of the file (lines 1033-1047).
NextMaster ==
    /\ dpc = "stats"
    /\ child' = [u \in SitemapUrls |-> NoCall]
    /\ child_sitemaps' = <<>>
    /\ IF mi < Len(masters_file)
       THEN dpc' = "master" /\ mi' = mi + 1
       ELSE dpc' = "file_done" /\ mi' = 0
    /\ UNCHANGED <<masters_file, sitemaps, news_pages, total_pages, hist>>
    /\ UNCHANGED <<ledgerVars, fetchVars, extractVars, syncVars, resultVars,
                   callVars, waitVars, raceVars>>

\* What is left when the discovery process has ended: the tables.
DiscoveryGone ==
    /\ dpc' = "down"
    /\ mi' = 0
    /\ child_sitemaps' = <<>>
    /\ child' = [u \in SitemapUrls |-> NoCall]
    /\ total_pages' = 0

\* main, lines 1108-1121: process_master_sitemaps_file has returned.
FinishDiscovery ==
    /\ dpc = "file_done"
    /\ DiscoveryGone
    /\ hist' = [hist EXCEPT !.new_domains = {}, !.new_children = {}, !.judged = {},
                             !.clean = TRUE]
    /\ UNCHANGED <<masters_file, sitemaps, news_pages>>
    /\ UNCHANGED <<ledgerVars, fetchVars, extractVars, syncVars, resultVars,
                   callVars, waitVars, raceVars>>

\* The discovery run is interrupted (killed, KeyboardInterrupt): the tables
\* stay as they are.
DiscoveryInterrupted ==
    /\ dpc \in {"master", "filter", "pool", "stats"}
    /\ DiscoveryGone
    /\ hist' = [hist EXCEPT !.interrupted = @ \cup (hist.new_children \ hist.judged),
                             !.new_domains = {}, !.new_children = {}, !.judged = {},
                             !.clean = TRUE]
    /\ UNCHANGED <<masters_file, sitemaps, news_pages>>
    /\ UNCHANGED <<ledgerVars, fetchVars, extractVars, syncVars, resultVars,
                   callVars, waitVars, raceVars>>

DiscNext ==
    \/ StartDiscovery
    \/ ProcessMaster
    \/ FilterAndSubmit
    \/ \E u \in SitemapUrls : \E doc \in fetch_xml(u) : ChildStart(u, doc)
    \/ \E u \in SitemapUrls : ChildVerdict(u)
    \/ \E u \in SitemapUrls : ChildRaises(u)
    \/ \E u \in SitemapUrls : ChildPage(u)
    \/ PoolDone
    \/ NextMaster
    \/ FinishDiscovery
    \/ DiscoveryInterrupted

(***************************************************************************)
(*              CONTENT EXTRACTION (get_content.py, stage 2)               *)
(***************************************************************************)
\* Bound of the extraction model: the pages of the store.  As in the
\* fetcher, page 2 is the page of domain "d2", the others are of "d1".
NExtractPages == 3

ExtractPageIds == 1..NExtractPages

\* What stage 1 can leave in page_raw_content for a page it fetched:
\*   "html"   the body of the response
\*   "empty"  an empty body (response.text = '')
\*   "NULL"   the fetch failed for good; is_error is set with it
RawBodies == {"html", "empty", "NULL"}

\* What extract_content can return: the text, or None ("NULL").
Extractions == {"text", "NULL"}

\* What trafilatura.extract can return: the text, the empty string or None.
TrafilaturaOutputs == {"text", "empty", "NULL"}

\* extract_content handing on whatever the library returned.
extract_content_as_returned(extracted_text) == extracted_text

\* extract_content, lines 96-115: `not extracted_text` (None and the empty
\* string) gives None.
extract_content(extracted_text) ==
    IF extracted_text \in {"NULL", "empty"} THEN "NULL" ELSE extracted_text

\* get_raw_content_from_db: no row, or the query failed.
NoRead == [page_raw_content |-> "NULL", content |-> "NULL"]

\* The selection of stage 2 without its test of the content column.
get_pages_for_content_extraction_any_content(raw, cont, err) ==
    SortedSeq({p \in ExtractPageIds : raw[p] \notin {"norow", "NULL"} /\ ~err[p]})

\* get_pages_for_content_extraction, lines 195-213: the rows of
\* news_pages_content with page_raw_content IS NOT NULL, content IS NULL and
\* is_error = FALSE, in the query's order (ascending page id stands for
\* descending publication date).
get_pages_for_content_extraction(raw, cont, err) ==
    SortedSeq({p \in ExtractPageIds :
                  raw[p] \notin {"norow", "NULL"} /\ cont[p] = "NULL" /\ ~err[p]})

\* get_raw_content_from_db, lines 269-293.
get_raw_content_from_db(raw, cont, p) ==
    IF raw[p] = "norow" THEN NoRead
    ELSE [page_raw_content |-> raw[p], content |-> cont[p]]

\* `not raw_content` of line 571: None and the empty string.
NotRawContent(r) == r.page_raw_content \in {"NULL", "empty"}

\* The row of page p as the store holds it.
StoredRow(p) == [id_page |-> p, page_raw_content |-> page_raw_content[p],
                 content |-> content[p]]

NoExtractHist == [submitted |-> {}, calls |-> {}, updates |-> {}, skipped |-> {},
                  nothing |-> {}]

XCurrentDomainBatches == Batches(DomainPages(x_pages, DomainOrder(x_pages)[x_dom]))
XCurrentBatch == XCurrentDomainBatches[x_batch]

ExtractInit ==
    /\ xpc = "idle"
    /\ x_pages = <<>>
    /\ x_dom = 0
    /\ x_batch = 0
    /\ xstate = [p \in ExtractPageIds |-> "new"]
    /\ x_read = [p \in ExtractPageIds |-> NoRead]
    /\ page_raw_content = [p \in ExtractPageIds |-> "norow"]
    /\ content = [p \in ExtractPageIds |-> "NULL"]
    /\ page_error = [p \in ExtractPageIds |-> FALSE]
    /\ x_hist = NoExtractHist

\* main, lines 768-776, as stage 2 sees it: stage 1 of a run has selected
\* page p (no raw content, no error) and process_page_raw_content has stored
\* what the fetch brought; a failed fetch sets is_error.
StoreRawContent(p, body) ==
    /\ xpc = "idle"
    /\ page_raw_content[p] \in {"norow", "NULL"}
    /\ ~page_error[p]
    /\ page_raw_content' = [page_raw_content EXCEPT ![p] = body]
    /\ page_error' = [page_error EXCEPT ![p] = (body = "NULL")]
    /\ UNCHANGED <<xpc, x_pages, x_dom, x_batch, xstate, x_read, content, x_hist>>
    /\ UNCHANGED <<ledgerVars, fetchVars, discVars, syncVars, resultVars,
                   callVars, waitVars, raceVars>>

\* main, lines 782-789: stage 2 selects the pages and hands them to
\* process_pages.
StartExtraction ==
    /\ xpc = "idle"
    /\ LET pages == get_pages_for_content_extraction(page_raw_content, content, page_error)
       IN /\ pages # <<>>
          /\ x_pages' = pages
          /\ xpc' = "submit" /\ x_dom' = 1 /\ x_batch' = 1
    /\ xstate' = [p \in ExtractPageIds |-> "new"]
    /\ x_read' = [p \in ExtractPageIds |-> NoRead]
    /\ x_hist' = NoExtractHist
    /\ UNCHANGED <<page_raw_content, content, page_error>>
    /\ UNCHANGED <<ledgerVars, fetchVars, discVars, syncVars, resultVars,
                   callVars, waitVars, raceVars>>

\* process_pages, lines 621-624: executor.submit of the next page of the
\* current batch; a pool thread starts process_page_content_extraction.
SubmitExtraction ==
    /\ xpc = "submit"
    /\ LET batch == XCurrentBatch
           n == CHOOSE m \in DOMAIN batch :
                    /\ xstate[batch[m]] = "new"
                    /\ \A l \in 1..(m - 1) : xstate[batch[l]] # "new"
       IN /\ xstate' = [xstate EXCEPT ![batch[n]] = "running"]
          /\ x_hist' = [x_hist EXCEPT !.submitted = @ \cup {StoredRow(batch[n])}]
          /\ xpc' = IF n = Len(batch) THEN "wait" ELSE "submit"
    /\ UNCHANGED <<x_pages, x_dom, x_batch, x_read, page_raw_content, content, page_error>>
    /\ UNCHANGED <<ledgerVars, fetchVars, discVars, syncVars, resultVars,
                   callVars, waitVars, raceVars>>

\* process_page_content_extraction, lines 566-574: the read of the row
\* (which can fail: None, None) and the early return on no raw content.
ReadRawContent(p, db_ok) ==
    /\ xstate[p] = "running"
    /\ LET r == IF db_ok THEN get_raw_content_from_db(page_raw_content, content, p)
                ELSE NoRead
       IN /\ x_read' = [x_read EXCEPT ![p] = r]
          /\ IF NotRawContent(r)
             THEN /\ xstate' = [xstate EXCEPT ![p] = "done"]
                  /\ x_hist' = [x_hist EXCEPT !.skipped = @ \cup {p}]
             ELSE /\ xstate' = [xstate EXCEPT ![p] = "read"]
                  /\ UNCHANGED x_hist
    /\ UNCHANGED <<xpc, x_pages, x_dom, x_batch, page_raw_content, content, page_error>>
    /\ UNCHANGED <<ledgerVars, fetchVars, discVars, syncVars, resultVars,
                   callVars, waitVars, raceVars>>

\* process_page_content_extraction, lines 576-596: extract_content on the
\* raw content read when the content read is None, and the UPDATE of
\* save_extracted_content_to_db (which can fail and roll back).
\* x_hist.nothing keeps the pages the library returned nothing for.
ExtractAndSave(p, out, db_ok) ==
    /\ xstate[p] = "read"
    /\ IF x_read[p].content = "NULL"
       THEN /\ x_hist' = [x_hist EXCEPT
                    !.calls = @ \cup {StoredRow(p)},
                    !.updates = IF db_ok THEN @ \cup {StoredRow(p)} ELSE @,
                    !.nothing = IF out \in {"NULL", "empty"} THEN @ \cup {p} ELSE @]
            /\ content' = IF db_ok THEN [content EXCEPT ![p] = extract_content(out)]
                          ELSE content
       ELSE /\ out = "NULL" /\ db_ok
            /\ UNCHANGED <<x_hist, content>>
    /\ xstate' = [xstate EXCEPT ![p] = "done"]
    /\ UNCHANGED <<xpc, x_pages, x_dom, x_batch, x_read, page_raw_content, page_error>>
    /\ UNCHANGED <<ledgerVars, fetchVars, discVars, syncVars, resultVars,
                   callVars, waitVars, raceVars>>

\* process_pages, lines 627-646: every future of the batch has completed;
\* the loop goes to the next batch, to the next domain, or returns.
ExtractionBatchDone ==
    /\ xpc = "wait"
    /\ \A n \in DOMAIN XCurrentBatch : xstate[XCurrentBatch[n]] = "done"
    /\ IF x_batch < Len(XCurrentDomainBatches)
       THEN xpc' = "submit" /\ x_batch' = x_batch + 1 /\ x_dom' = x_dom
       ELSE IF x_dom < Len(DomainOrder(x_pages))
            THEN xpc' = "submit" /\ x_batch' = 1 /\ x_dom' = x_dom + 1
            ELSE xpc' = "idle" /\ x_batch' = 0 /\ x_dom' = 0
    /\ UNCHANGED <<x_pages, xstate, x_read, page_raw_content, content, page_error, x_hist>>
    /\ UNCHANGED <<ledgerVars, fetchVars, discVars, syncVars, resultVars,
                   callVars, waitVars, raceVars>>

ExtractNext ==
    \/ \E p \in ExtractPageIds, body \in RawBodies : StoreRawContent(p, body)
    \/ StartExtraction
    \/ SubmitExtraction
    \/ \E p \in ExtractPageIds, db_ok \in BOOLEAN : ReadRawContent(p, db_ok)
    \/ \E p \in ExtractPageIds, out \in TrafilaturaOutputs, db_ok \in BOOLEAN :
           ExtractAndSave(p, out, db_ok)
    \/ ExtractionBatchDone

(***************************************************************************)
(*              SYNCHRONOUS EMBEDDINGS (get_embeddings.py)                 *)
(***************************************************************************)
\* Bounds of the synchronous model: the pages with extracted content, and
\* scaled stand-ins of BATCH_SIZE = 100 (line 31), CONCURRENCY_LIMIT = 5
\* (line 34) and MAX_CONTENT_LENGTH = 8192 (line 41), chosen so that a run
\* has two batches, a batch has more tasks than the semaphore admits, and
\* texts below, at and above the ceiling exist.
NSyncPages == 3
SYNC_BATCH_SIZE == 2
CONCURRENCY_LIMIT == 1
MAX_CONTENT_LENGTH == 3

SYNC_MAX_RETRIES == 3

SyncPageIds == 1..NSyncPages
SyncDomains == {"d1", "d2"}

\* A text is a sequence of characters; n times the character "b".
Bs(n) == [j \in 1..n |-> "b"]

\* The contents a page can hold: texts of 1 to MAX_CONTENT_LENGTH + 1 tokens,
\* with and without a leading pair of characters that is one token.
SyncTexts == {Bs(n) : n \in 1..(MAX_CONTENT_LENGTH + 1)}
             \cup {<<"a", "b">> \o Bs(n) : n \in 0..MAX_CONTENT_LENGTH}

RECURSIVE encode(_)
\* self.tokenizer.encode: the text cut into tokens, each token a sequence of
\* characters; the pair "ab" is one token, every other character is its own.
encode(text) ==
    IF text = <<>> THEN <<>>
    ELSE IF Len(text) >= 2 /\ text[1] = "a" /\ text[2] = "b"
         THEN << <<"a", "b">> >> \o encode(SubSeq(text, 3, Len(text)))
         ELSE << <<text[1]>> >> \o encode(Tail(text))

RECURSIVE decode(_)
\* self.tokenizer.decode: the characters of the tokens, in order.
decode(tokens) ==
    IF tokens = <<>> THEN <<>> ELSE Head(tokens) \o decode(Tail(tokens))

\* The truncation that keeps MAX_CONTENT_LENGTH tokens.
truncate_text_to_token_limit_at_ceiling(text) ==
    LET tokens == encode(text)
    IN IF Len(tokens) <= MAX_CONTENT_LENGTH
       THEN [text |-> text, token_count |-> Len(tokens), truncated |-> FALSE]
       ELSE LET truncated_tokens == SubSeq(tokens, 1, MAX_CONTENT_LENGTH)
            IN [text |-> decode(truncated_tokens),
                token_count |-> Len(truncated_tokens), truncated |-> TRUE]

\* truncate_text_to_token_limit, lines 127-140; truncated tells that
\* stats['truncated_texts'] was incremented.
truncate_text_to_token_limit(text) ==
    LET tokens == encode(text)
    IN IF Len(tokens) <= MAX_CONTENT_LENGTH - 1
       THEN [text |-> text, token_count |-> Len(tokens), truncated |-> FALSE]
       ELSE LET truncated_tokens == SubSeq(tokens, 1, MAX_CONTENT_LENGTH - 1)
            IN [text |-> decode(truncated_tokens),
                token_count |-> Len(truncated_tokens), truncated |-> TRUE]

\* The rows get_unprocessed_contents of get_embeddings.py returns: the pages
\* without a row in content_embeddings (every page of the model has content
\* of sufficient length, and fewer pages exist than LIMIT), in the query's
\* order.
sync_get_unprocessed_contents(emb) == SortedSeq(SyncPageIds \ emb)

\* contents[i:i+BATCH_SIZE]
SyncBatch(list, off) == SubSeq(list, off + 1, Min(Len(list), off + SYNC_BATCH_SIZE))

\* The tasks inside `async with self.semaphore`.
SemaphoreHolders(task) == {p \in SyncPageIds : task[p] \in {"request", "backoff"}}

\* A semaphore that admits one task more.
SemaphoreFreeOneMore(task) == Cardinality(SemaphoreHolders(task)) <= CONCURRENCY_LIMIT

\* asyncio.Semaphore(CONCURRENCY_LIMIT): acquire returns while the counter
\* is positive.
SemaphoreFree(task) == Cardinality(SemaphoreHolders(task)) < CONCURRENCY_LIMIT

\* The retry test with one attempt more.
SyncShouldRetryOneMore(attempt) == attempt < SYNC_MAX_RETRIES

\* get_embedding, lines 158 and 177: another attempt follows a failed one.
SyncShouldRetry(attempt) == attempt < SYNC_MAX_RETRIES - 1

NoSyncStats == [truncated_texts |-> 0, successful_embeddings |-> 0,
                failed_embeddings |-> 0,
                domains_failed |-> [d \in SyncDomains |-> 0]]

SyncInit ==
    /\ spc = "idle"
    /\ s_contents = <<>>
    /\ s_i = 0
    /\ s_task = [p \in SyncPageIds |-> "none"]
    /\ s_attempt = [p \in SyncPageIds |-> 0]
    /\ s_requests = [p \in SyncPageIds |-> 0]
    /\ s_text = [p \in SyncPageIds |-> <<>>]
    /\ s_sent = [p \in SyncPageIds |-> <<>>]
    /\ s_stats = NoSyncStats
    /\ s_results = {}
    /\ content_embeddings = {}

\* process_all, lines 251-264: the selection; a run that finds nothing
\* returns.
StartProcessAll ==
    /\ spc = "idle"
    /\ LET rows == sync_get_unprocessed_contents(content_embeddings)
       IN /\ s_contents' = rows
          /\ spc' = IF rows = <<>> THEN "done" ELSE "batch"
    /\ s_i' = 0
    /\ UNCHANGED <<s_task, s_attempt, s_requests, s_text, s_sent, s_stats, s_results,
                   content_embeddings>>
    /\ UNCHANGED <<ledgerVars, fetchVars, discVars, extractVars, resultVars,
                   callVars, waitVars, raceVars>>

\* process_batch, lines 199-214: a get_embedding task for every row of the
\* batch (the contents selected are never empty).
StartBatch ==
    /\ spc = "batch"
    /\ s_task' = [p \in SyncPageIds |->
                     IF p \in Range(SyncBatch(s_contents, s_i)) THEN "waiting" ELSE s_task[p]]
    /\ s_results' = {}
    /\ spc' = "gather"
    /\ UNCHANGED <<s_contents, s_i, s_attempt, s_requests, s_text, s_sent, s_stats,
                   content_embeddings>>
    /\ UNCHANGED <<ledgerVars, fetchVars, discVars, extractVars, resultVars,
                   callVars, waitVars, raceVars>>

\* get_embedding, lines 151-156: the task of page p enters the semaphore and
\* truncates its text, the content of the row of p.
AcquireSemaphore(p, text) ==
    /\ s_task[p] = "waiting"
    /\ SemaphoreFree(s_task)
    /\ LET r == truncate_text_to_token_limit(text)
       IN /\ s_text' = [s_text EXCEPT ![p] = text]
          /\ s_sent' = [s_sent EXCEPT ![p] = r.text]
          /\ s_stats' = [s_stats EXCEPT !.truncated_texts =
                            IF r.truncated THEN @ + 1 ELSE @]
    /\ s_task' = [s_task EXCEPT ![p] = "request"]
    /\ s_attempt' = [s_attempt EXCEPT ![p] = 0]
    /\ UNCHANGED <<spc, s_contents, s_i, s_requests, s_results, content_embeddings>>
    /\ UNCHANGED <<ledgerVars, fetchVars, discVars, extractVars, resultVars,
                   callVars, waitVars, raceVars>>

\* get_embedding, lines 160-175: a request that brings the embedding; the
\* task leaves the semaphore and process_batch appends its result.
RequestOk(p) ==
    /\ s_task[p] = "request"
    /\ s_requests' = [s_requests EXCEPT ![p] = @ + 1]
    /\ s_stats' = [s_stats EXCEPT !.successful_embeddings = @ + 1]
    /\ s_task' = [s_task EXCEPT ![p] = "ok"]
    /\ s_results' = s_results \cup {p}
    /\ s_text' = [s_text EXCEPT ![p] = <<>>]
    /\ s_sent' = [s_sent EXCEPT ![p] = <<>>]
    /\ UNCHANGED <<spc, s_contents, s_i, s_attempt, content_embeddings>>
    /\ UNCHANGED <<ledgerVars, fetchVars, discVars, extractVars, resultVars,
                   callVars, waitVars, raceVars>>

\* get_embedding, lines 176-189: a request that raises; the task sleeps
\* inside the semaphore, or counts the failure and raises, which
\* process_batch logs (lines 219-221).
RequestFail(p) ==
    /\ s_task[p] = "request"
    /\ s_requests' = [s_requests EXCEPT ![p] = @ + 1]
    /\ IF SyncShouldRetry(s_attempt[p])
       THEN /\ s_task' = [s_task EXCEPT ![p] = "backoff"]
            /\ UNCHANGED <<s_stats, s_text, s_sent>>
       ELSE /\ s_task' = [s_task EXCEPT ![p] = "failed"]
            /\ s_stats' = [s_stats EXCEPT
                    !.failed_embeddings = @ + 1,
                    !.domains_failed[FetchDomain(p)] = @ + 1]
            /\ s_text' = [s_text EXCEPT ![p] = <<>>]
            /\ s_sent' = [s_sent EXCEPT ![p] = <<>>]
    /\ UNCHANGED <<spc, s_contents, s_i, s_attempt, s_results, content_embeddings>>
    /\ UNCHANGED <<ledgerVars, fetchVars, discVars, extractVars, resultVars,
                   callVars, waitVars, raceVars>>

\* get_embedding, lines 158 and 179: the sleep is over, the next attempt.
BackoffOver(p) ==
    /\ s_task[p] = "backoff"
    /\ s_task' = [s_task EXCEPT ![p] = "request"]
    /\ s_attempt' = [s_attempt EXCEPT ![p] = @ + 1]
    /\ UNCHANGED <<spc, s_contents, s_i, s_requests, s_text, s_sent, s_stats, s_results,
                   content_embeddings>>
    /\ UNCHANGED <<ledgerVars, fetchVars, discVars, extractVars, resultVars,
                   callVars, waitVars, raceVars>>

\* process_batch, lines 214-223: as_completed has yielded every task.
BatchGathered ==
    /\ spc = "gather"
    /\ \A p \in Range(SyncBatch(s_contents, s_i)) : s_task[p] \in {"ok", "failed"}
    /\ spc' = "save"
    /\ UNCHANGED <<s_contents, s_i, s_task, s_attempt, s_requests, s_text, s_sent,
                   s_stats, s_results, content_embeddings>>
    /\ UNCHANGED <<ledgerVars, fetchVars, discVars, extractVars, resultVars,
                   callVars, waitVars, raceVars>>

\* save_embeddings, lines 231-247, and the loop of process_all, lines
\* 263-268: the upsert of the batch's results; an exception of the store is
\* caught nowhere before main (lines 349-351), which ends the run.
SaveEmbeddings(db_ok) ==
    /\ spc = "save"
    /\ s_results = {} => db_ok
    /\ IF db_ok
       THEN /\ content_embeddings' = content_embeddings \cup s_results
            /\ IF s_i + SYNC_BATCH_SIZE < Len(s_contents)
               THEN spc' = "batch" /\ s_i' = s_i + SYNC_BATCH_SIZE
               ELSE spc' = "done" /\ s_i' = s_i
       ELSE /\ spc' = "aborted"
            /\ UNCHANGED <<content_embeddings, s_i>>
    /\ UNCHANGED <<s_contents, s_task, s_attempt, s_requests, s_text, s_sent, s_stats,
                   s_results>>
    /\ UNCHANGED <<ledgerVars, fetchVars, discVars, extractVars, resultVars,
                   callVars, waitVars, raceVars>>

SyncNext ==
    \/ StartProcessAll
    \/ StartBatch
    \/ \E p \in SyncPageIds, text \in SyncTexts : AcquireSemaphore(p, text)
    \/ \E p \in SyncPageIds : RequestOk(p)
    \/ \E p \in SyncPageIds : RequestFail(p)
    \/ \E p \in SyncPageIds : BackoffOver(p)
    \/ BatchGathered
    \/ \E db_ok \in BOOLEAN : SaveEmbeddings(db_ok)

(***************************************************************************)
(*        RESULTS OF A BATCH JOB (get_embeddings_batch_mode.py)            *)
(***************************************************************************)
\* Bounds of the results model: the lines of an output file, and the scaled
\* stand-in of the 100 embeddings per INSERT (line 363).
NResultLines == 3
RESULT_CHUNK == 2

\* What a line of the output file can be:
\*   "ok"        a result with status_code 200 and an embedding
\*   "error"     a result with an error, or with another status_code
\*   "unusable"  a line json.loads or the subscripts of lines 344-356 raise on
LineKinds == {"ok", "error", "unusable"}

\* The output files: line n carries the custom_id n.
ResultOutputs ==
    UNION {[1..len -> LineKinds] : len \in 1..NResultLines}

NoReturn == [value |-> -1, raised |-> "none"]

\* process_batch_results, lines 344-356: the line makes the loop body raise.
RaisesOn(kind) == kind = "unusable"

ResultInit ==
    /\ rpc = "idle"
    /\ r_output = <<>>
    /\ r_n = 0
    /\ r_buffer = <<>>
    /\ r_store = {}
    /\ r_counts = [successful |-> 0, failed |-> 0]
    /\ r_return = NoReturn

\* process_batch_results, lines 318-341: no output file, or the download or
\* the connection raises, and 0 is returned; otherwise the loop starts.
StartResults(output, fetched) ==
    /\ rpc = "idle"
    /\ r_output' = output
    /\ IF fetched
       THEN rpc' = "loop" /\ r_n' = 1 /\ r_return' = r_return
       ELSE rpc' = "done" /\ r_n' = 0 /\ r_return' = [value |-> 0, raised |-> "download"]
    /\ UNCHANGED <<r_buffer, r_store, r_counts>>
    /\ UNCHANGED <<ledgerVars, fetchVars, discVars, extractVars, syncVars,
                   callVars, waitVars, raceVars>>

\* process_batch_results, lines 343-371: one line of the output.  An
\* exception anywhere leaves the loop and the function through line 404.
ProcessLine(db_ok) ==
    /\ rpc = "loop"
    /\ r_n <= Len(r_output)
    /\ LET kind == r_output[r_n]
           full == Len(r_buffer) + 1 >= RESULT_CHUNK
       IN IF RaisesOn(kind)
          THEN /\ db_ok
               /\ rpc' = "done"
               /\ r_return' = [value |-> 0, raised |-> "line"]
               /\ UNCHANGED <<r_buffer, r_store, r_counts, r_n>>
          ELSE IF kind # "ok"
          THEN /\ db_ok
               /\ r_counts' = [r_counts EXCEPT !.failed = @ + 1]
               /\ r_n' = r_n + 1
               /\ UNCHANGED <<rpc, r_buffer, r_store, r_return>>
          ELSE IF ~full
          THEN /\ db_ok
               /\ r_buffer' = Append(r_buffer, r_n)
               /\ r_counts' = [r_counts EXCEPT !.successful = @ + 1]
               /\ r_n' = r_n + 1
               /\ UNCHANGED <<rpc, r_store, r_return>>
          ELSE IF db_ok
          THEN /\ r_store' = r_store \cup Range(r_buffer) \cup {r_n}
               /\ r_buffer' = <<>>
               /\ r_counts' = [r_counts EXCEPT !.successful = @ + 1]
               /\ r_n' = r_n + 1
               /\ UNCHANGED <<rpc, r_return>>
          ELSE /\ rpc' = "done"
               /\ r_return' = [value |-> 0, raised |-> "store"]
               /\ r_counts' = [r_counts EXCEPT !.successful = @ + 1]
               /\ r_buffer' = Append(r_buffer, r_n)
               /\ UNCHANGED <<r_store, r_n>>
    /\ UNCHANGED r_output
    /\ UNCHANGED <<ledgerVars, fetchVars, discVars, extractVars, syncVars,
                   callVars, waitVars, raceVars>>

\* process_batch_results, lines 373-402: the INSERT of what is left in the
\* list, and the return of successful_count.
FinishResults(db_ok) ==
    /\ rpc = "loop"
    /\ r_n > Len(r_output)
    /\ rpc' = "done"
    /\ IF r_buffer = <<>>
       THEN /\ db_ok
            /\ r_return' = [value |-> r_counts.successful, raised |-> "none"]
            /\ UNCHANGED <<r_store, r_buffer>>
       ELSE IF db_ok
       THEN /\ r_store' = r_store \cup Range(r_buffer)
            /\ r_buffer' = r_buffer
            /\ r_return' = [value |-> r_counts.successful, raised |-> "none"]
       ELSE /\ r_return' = [value |-> 0, raised |-> "store"]
            /\ UNCHANGED <<r_store, r_buffer>>
    /\ UNCHANGED <<r_output, r_n, r_counts>>
    /\ UNCHANGED <<ledgerVars, fetchVars, discVars, extractVars, syncVars,
                   callVars, waitVars, raceVars>>

ResultNext ==
    \/ \E output \in ResultOutputs, fetched \in BOOLEAN : StartResults(output, fetched)
    \/ \E db_ok \in BOOLEAN : ProcessLine(db_ok)
    \/ \E db_ok \in BOOLEAN : FinishResults(db_ok)

(***************************************************************************)
(*   ONE FETCH: fetch_xml (sitemap_parser.py), fetch_page_content          *)
(*   (get_content.py), request by request                                  *)
(***************************************************************************)
XML_MAX_RETRIES == 3
XML_MAX_REDIRECTS == 5

\* The domains of the modelled web; the call starts on "d1".
WebDomains == {"d1", "d2", "d3"}

\* What one requests.get can bring:
\*   "ok"        a 2xx response whose body is what was asked for
\*   "garbage"   a 2xx response whose body is no XML
\*   "redirect"  a 3xx response with a Location (response.is_redirect)
\*   "error"     a RequestException: no response, or 4xx/5xx at raise_for_status
CallResponses == {"ok", "garbage", "redirect", "error"}

CallInit ==
    /\ c_fn = "none"
    /\ c_pc = "idle"
    /\ c_url = "d1"
    /\ c_cookies = "d1"
    /\ c_attempt = 0
    /\ c_redirect_count = 0
    /\ c_last = "none"
    /\ c_result = "none"
    /\ c_sent = {}
    /\ c_requests = 0

\* fetch_xml, lines 147-150, and fetch_page_content, lines 432-444: the
\* cookies of the URL's domain (of the page's domain) are loaded.
StartCall(fn) ==
    /\ c_pc = "idle"
    /\ c_fn' = fn
    /\ c_pc' = "requesting"
    /\ UNCHANGED <<c_url, c_cookies, c_attempt, c_redirect_count, c_last, c_result, c_sent,
                   c_requests>>
    /\ UNCHANGED <<ledgerVars, fetchVars, discVars, extractVars, syncVars,
                   resultVars, waitVars, raceVars>>

\* fetch_xml, lines 152-221: one requests.get (line 154 or line 182) and
\* what follows it up to the next request or the return.  redirect_count,
\* current_url and the cookies live through the attempts.
XmlRequest(resp, target) ==
    /\ c_fn = "fetch_xml"
    /\ c_pc = "requesting"
    /\ resp # "redirect" => target = c_url
    /\ c_sent' = c_sent \cup {[url |-> c_url, cookies |-> c_cookies]}
    /\ c_requests' = c_requests + 1
    /\ c_last' = resp
    /\ IF resp = "error"
       THEN \* except RequestException, lines 212-215, and line 220
            /\ c_attempt' = c_attempt + 1
            /\ IF c_attempt + 1 < XML_MAX_RETRIES
               THEN UNCHANGED <<c_pc, c_result>>
               ELSE c_pc' = "done" /\ c_result' = "None"
            /\ UNCHANGED <<c_url, c_cookies, c_redirect_count>>
       ELSE IF resp = "redirect" /\ c_redirect_count < XML_MAX_REDIRECTS
       THEN \* the body of the while loop, lines 164-180
            /\ c_redirect_count' = c_redirect_count + 1
            /\ c_url' = target
            /\ c_cookies' = IF target # c_cookies THEN target ELSE c_cookies
            /\ UNCHANGED <<c_pc, c_result, c_attempt>>
       ELSE \* lines 190-211: the test of redirect_count, then the parsing
            /\ c_pc' = "done"
            /\ c_result' = IF c_redirect_count >= XML_MAX_REDIRECTS THEN "None"
                           ELSE IF resp = "ok" THEN "document" ELSE "None"
            /\ UNCHANGED <<c_url, c_cookies, c_attempt, c_redirect_count>>
    /\ UNCHANGED c_fn
    /\ UNCHANGED <<ledgerVars, fetchVars, discVars, extractVars, syncVars,
                   resultVars, waitVars, raceVars>>

\* fetch_page_content, lines 432-516: one requests.get of the call and of
\* its recursive calls.  Every call loads the cookies of
\* page_info['domain'], which new_page_info (lines 471-472) copies from the
\* page.
PageRequest(resp, target) ==
    /\ c_fn = "fetch_page_content"
    /\ c_pc = "requesting"
    /\ resp # "redirect" => target = c_url
    /\ c_sent' = c_sent \cup {[url |-> c_url, cookies |-> c_cookies]}
    /\ c_requests' = c_requests + 1
    /\ c_last' = resp
    /\ IF resp = "error"
       THEN /\ IF ShouldRetry(c_attempt)
               THEN c_attempt' = c_attempt + 1 /\ UNCHANGED <<c_pc, c_result>>
               ELSE c_pc' = "done" /\ c_result' = "NULL" /\ c_attempt' = c_attempt
            /\ UNCHANGED <<c_url, c_redirect_count>>
       ELSE IF FollowsRedirect(resp, c_redirect_count)
       THEN /\ c_redirect_count' = c_redirect_count + 1
            /\ c_url' = target
            /\ UNCHANGED <<c_pc, c_result, c_attempt>>
       ELSE /\ c_pc' = "done"
            /\ c_result' = IF resp = "ok" THEN "html" ELSE "body"
            /\ UNCHANGED <<c_url, c_attempt, c_redirect_count>>
    /\ UNCHANGED <<c_fn, c_cookies>>
    /\ UNCHANGED <<ledgerVars, fetchVars, discVars, extractVars, syncVars,
                   resultVars, waitVars, raceVars>>

XmlCallNext ==
    \/ StartCall("fetch_xml")
    \/ \E resp \in CallResponses, target \in WebDomains : XmlRequest(resp, target)

PageCallNext ==
    \/ StartCall("fetch_page_content")
    \/ \E resp \in CallResponses, target \in WebDomains : PageRequest(resp, target)

(***************************************************************************)
(*   Pool workers of process_master_sitemaps_file inside save_news_page    *)
(*   (sitemap_parser.py), each on a connection of its own.                 *)
(***************************************************************************)
NSaveCalls == 2

Workers == {1, 2}
RaceUrls == {"p1", "p2"}

NoOut == [result |-> 0, ended |-> "none", rolled_back |-> FALSE, raised |-> FALSE]

\* The ids of the committed rows with the URL.
CommittedWithUrl(rows, url) == {n \in DOMAIN rows : rows[n] = url}

\* The store contract: news_pages.url is UNIQUE, and an INSERT of a URL a
\* committed row has is refused.
UniqueViolation(rows, url) == CommittedWithUrl(rows, url) # {}

\* The store contract: an INSERT of a URL that another transaction has
\* inserted and not yet committed waits for that transaction.
InsertWaits(pending, w, url) == \E v \in Workers \ {w} : pending[v] = url

\* The handler letting the error through.
OnInsertErrorReraise(out) == [out EXCEPT !.ended = "error", !.raised = TRUE]

\* save_news_page, lines 459-462: except psycopg2.Error rolls back, logs
\* and returns None.
OnInsertError(out) == [out EXCEPT !.result = 0, !.ended = "error", !.rolled_back = TRUE]

SaveRaceInit ==
    /\ n_pc = [w \in Workers |-> "idle"]
    /\ n_url = [w \in Workers |-> "none"]
    /\ n_seen = [w \in Workers |-> 0]
    /\ n_out = [w \in Workers |-> NoOut]
    /\ n_calls = [w \in Workers |-> 0]
    /\ n_rows = <<>>
    /\ n_pending = [w \in Workers |-> "none"]

\* process_child_sitemap, line 953, and save_news_page, lines 408-422: the
\* worker calls save_news_page for a dated page and opens its connection.
SaveStart(w, url) ==
    /\ n_pc[w] \in {"idle", "done"}
    /\ n_calls[w] < NSaveCalls
    /\ n_pc' = [n_pc EXCEPT ![w] = "lookup"]
    /\ n_url' = [n_url EXCEPT ![w] = url]
    /\ n_seen' = [n_seen EXCEPT ![w] = 0]
    /\ n_out' = [n_out EXCEPT ![w] = NoOut]
    /\ n_calls' = [n_calls EXCEPT ![w] = @ + 1]
    /\ UNCHANGED <<n_rows, n_pending>>
    /\ UNCHANGED <<ledgerVars, fetchVars, discVars, extractVars, syncVars,
                   resultVars, callVars, waitVars>>

\* save_news_page, lines 424-434: the SELECT sees the committed rows; the
\* id of a row found is returned.
SaveLookup(w) ==
    /\ n_pc[w] = "lookup"
    /\ LET found == CommittedWithUrl(n_rows, n_url[w])
           id == IF found = {} THEN 0 ELSE CHOOSE n \in found : TRUE
       IN /\ n_seen' = [n_seen EXCEPT ![w] = id]
          /\ IF id # 0
             THEN /\ n_pc' = [n_pc EXCEPT ![w] = "done"]
                  /\ n_out' = [n_out EXCEPT ![w] = [NoOut EXCEPT !.result = id,
                                                                !.ended = "found"]]
             ELSE /\ n_pc' = [n_pc EXCEPT ![w] = "insert"]
                  /\ UNCHANGED n_out
    /\ UNCHANGED <<n_url, n_calls, n_rows, n_pending>>
    /\ UNCHANGED <<ledgerVars, fetchVars, discVars, extractVars, syncVars,
                   resultVars, callVars, waitVars>>

\* save_news_page, lines 437-448 and 459-462: the INSERT, once no other
\* transaction holds the URL uncommitted; a refused INSERT raises
\* psycopg2.Error.
SaveInsert(w) ==
    /\ n_pc[w] = "insert"
    /\ ~InsertWaits(n_pending, w, n_url[w])
    /\ IF UniqueViolation(n_rows, n_url[w])
       THEN /\ n_out' = [n_out EXCEPT ![w] = OnInsertError(@)]
            /\ n_pc' = [n_pc EXCEPT ![w] = "done"]
            /\ UNCHANGED n_pending
       ELSE /\ n_pending' = [n_pending EXCEPT ![w] = n_url[w]]
            /\ n_pc' = [n_pc EXCEPT ![w] = "commit"]
            /\ UNCHANGED n_out
    /\ UNCHANGED <<n_url, n_seen, n_calls, n_rows>>
    /\ UNCHANGED <<ledgerVars, fetchVars, discVars, extractVars, syncVars,
                   resultVars, callVars, waitVars>>

\* save_news_page, lines 450-457: conn.commit() and the return of page_id.
SaveCommit(w) ==
    /\ n_pc[w] = "commit"
    /\ n_rows' = Append(n_rows, n_url[w])
    /\ n_pending' = [n_pending EXCEPT ![w] = "none"]
    /\ n_out' = [n_out EXCEPT ![w] = [NoOut EXCEPT !.result = Len(n_rows) + 1,
                                                  !.ended = "inserted"]]
    /\ n_pc' = [n_pc EXCEPT ![w] = "done"]
    /\ UNCHANGED <<n_url, n_seen, n_calls>>
    /\ UNCHANGED <<ledgerVars, fetchVars, discVars, extractVars, syncVars,
                   resultVars, callVars, waitVars>>

SaveRaceNext ==
    \/ \E w \in Workers, url \in RaceUrls : SaveStart(w, url)
    \/ \E w \in Workers : SaveLookup(w)
    \/ \E w \in Workers : SaveInsert(w)
    \/ \E w \in Workers : SaveCommit(w)

(***************************************************************************)
(*   The blocking batch variant: process_batch and                         *)
(*   wait_for_batch_completion of get_embeddings_batch_mode.py.            *)
(*   Time is counted in ticks.                                             *)
(***************************************************************************)
BATCH_MAX_WAIT_TIME == 4
BATCH_CHECK_INTERVAL == 1

\* The longest a request, or the oversleep of time.sleep, takes.
MaxDelay == 1

Delays == 0..MaxDelay

\* The statuses batches.retrieve can show.
PolledStatuses == {"validating", "in_progress", "finalizing",
                   "completed", "failed", "expired", "cancelled"}

\* The test of the wait loop as one that knows completed and failed only.
WaitIsOverWithoutExpiry(status) == status \in {"completed", "failed"}

\* wait_for_batch_completion, line 271.
WaitIsOver(status) == status \in {"completed", "failed", "expired", "cancelled"}

NoWaitReturn == [value |-> -1, ended |-> "none", raised |-> FALSE]

WaitInit ==
    /\ b_pc = "idle"
    /\ b_now = 0
    /\ b_wait_time = 0
    /\ b_batch = "none"
    /\ b_stored = 0
    /\ b_return = NoWaitReturn

\* process_batch, lines 528-543: the file is prepared and uploaded and the
\* job created, then wait_for_batch_completion sets start_time and
\* wait_time (lines 263-264); an exception of the three steps is caught at
\* line 556 and 0 is returned.
StartWait(ok) ==
    /\ b_pc = "idle"
    /\ IF ok
       THEN b_pc' = "loop" /\ b_return' = b_return
       ELSE b_pc' = "done" /\ b_return' = [value |-> 0, ended |-> "error", raised |-> FALSE]
    /\ UNCHANGED <<b_now, b_wait_time, b_batch, b_stored>>
    /\ UNCHANGED <<ledgerVars, fetchVars, discVars, extractVars, syncVars,
                   resultVars, callVars, raceVars>>

\* wait_for_batch_completion, lines 268-290: one pass of the loop.  The
\* request takes d1 ticks; it raises (caught at line 556 of process_batch),
\* or shows a status that ends the wait (the download of the error file of
\* line 283 can raise too), or wait_time is measured and the thread sleeps
\* BATCH_CHECK_INTERVAL and d2 ticks more.
Poll(status, ok, d1, d2) ==
    /\ b_pc = "loop"
    /\ b_wait_time < BATCH_MAX_WAIT_TIME
    /\ IF ~ok
       THEN /\ d2 = 0
            /\ b_pc' = "done"
            /\ b_return' = [value |-> 0, ended |-> "error", raised |-> FALSE]
            /\ b_now' = b_now + d1
            /\ UNCHANGED <<b_wait_time, b_batch>>
       ELSE IF WaitIsOver(status)
       THEN /\ d2 = 0
            /\ b_pc' = "results"
            /\ b_batch' = status
            /\ b_now' = b_now + d1
            /\ UNCHANGED <<b_wait_time, b_return>>
       ELSE /\ b_batch' = status
            /\ b_wait_time' = b_now + d1
            /\ b_now' = b_now + d1 + BATCH_CHECK_INTERVAL + d2
            /\ UNCHANGED <<b_pc, b_return>>
    /\ UNCHANGED b_stored
    /\ UNCHANGED <<ledgerVars, fetchVars, discVars, extractVars, syncVars,
                   resultVars, callVars, raceVars>>

\* wait_for_batch_completion, lines 292-294, and process_batch, lines
\* 546-554: the loop is left with None, process_batch_results returns 0 at
\* line 320 and process_batch returns it.
GiveUp ==
    /\ b_pc = "loop"
    /\ b_wait_time >= BATCH_MAX_WAIT_TIME
    /\ b_pc' = "done"
    /\ b_batch' = "none"
    /\ b_return' = [value |-> 0, ended |-> "timeout", raised |-> FALSE]
    /\ UNCHANGED <<b_now, b_wait_time, b_stored>>
    /\ UNCHANGED <<ledgerVars, fetchVars, discVars, extractVars, syncVars,
                   resultVars, callVars, raceVars>>

\* process_batch, lines 546-554: process_batch_results on the batch the
\* wait returned stores n embeddings and returns n; it returns 0 for a
\* batch without an output file (line 318).
ProcessWaitResults(n) ==
    /\ b_pc = "results"
    /\ b_batch # "completed" => n = 0
    /\ b_stored' = n
    /\ b_pc' = "done"
    /\ b_return' = [value |-> n, ended |-> "status", raised |-> FALSE]
    /\ UNCHANGED <<b_now, b_wait_time, b_batch>>
    /\ UNCHANGED <<ledgerVars, fetchVars, discVars, extractVars, syncVars,
                   resultVars, callVars, raceVars>>

WaitNext ==
    \/ \E ok \in BOOLEAN : StartWait(ok)
    \/ \E status \in PolledStatuses, ok \in BOOLEAN, d1 \in Delays, d2 \in Delays :
           Poll(status, ok, d1, d2)
    \/ GiveUp
    \/ \E n \in 0..1 : ProcessWaitResults(n)

(***************************************************************************)
(*                          Specifications                                 *)
(***************************************************************************)
Init == LedgerInit /\ FetchInit /\ DiscInit /\ ExtractInit /\ SyncInit /\ ResultInit
        /\ CallInit /\ WaitInit /\ SaveRaceInit

Spec == Init /\ [][LedgerNext]_vars

FetchSpec == Init /\ [][FetchNext]_vars

\* The fetcher with its threads scheduled: the main thread and every pool
\* thread that can take a step eventually takes one.
FetchFairSpec == FetchSpec /\ WF_vars(FetchNext)

DiscSpec == Init /\ [][DiscNext]_vars

ExtractSpec == Init /\ [][ExtractNext]_vars

SyncSpec == Init /\ [][SyncNext]_vars

ResultSpec == Init /\ [][ResultNext]_vars

XmlCallSpec == Init /\ [][XmlCallNext]_vars

PageCallSpec == Init /\ [][PageCallNext]_vars

\* requests.get returns or raises within REQUEST_TIMEOUT and time.sleep
\* returns: the call keeps taking steps.
PageCallFairSpec == PageCallSpec /\ WF_vars(PageCallNext)

SaveRaceSpec == Init /\ [][SaveRaceNext]_vars

WaitSpec == Init /\ [][WaitNext]_vars

\* Every statement of process_batch returns or raises: the process keeps
\* taking steps.
WaitFairSpec == WaitSpec /\ WF_vars(WaitNext)

(***************************************************************************)
(*                 Properties of the batch ledger (Spec)                   *)
(***************************************************************************)
\* C1: get_unprocessed_contents never returns a page id that is in the
\* page_ids of a job of the ledger's pending list: neither would a call in
\* the current state, nor did the call create_batches has just made (no chunk
\* of its selection submitted yet).
C1_PendingPagesNotSelected ==
    \A n \in DOMAIN batch_jobs.pending :
        \A p \in Range(batch_jobs.pending[n].page_ids) :
            /\ p \notin Range(get_unprocessed_contents(batch_jobs, embeddings))
            /\ (pc = "cb_submit" /\ i = 0) => p \notin Range(contents)

\* A job is pending and the selection create_batches has just made is not empty.
C1_Witness ==
    /\ pc = "cb_submit"
    /\ i = 0
    /\ batch_jobs.pending # <<>>
    /\ contents # <<>>

\* C2: no page id is put into a newly submitted job while an earlier
\* submitted job containing it has not reached a terminal status at the
\* API: two jobs that are both in progress at the API share no page id.
C2_NoPageInTwoOpenJobs ==
    \A b1, b2 \in BatchIds :
        (b1 < b2 /\ api_status[b1] = "in_progress" /\ api_status[b2] = "in_progress")
            => api_pages[b1] \cap api_pages[b2] = {}

\* C3: once a job has been moved out of pending by a poll that returned a
\* final status, no later check_pending_batches polls it again: the job
\* about to be polled is never one a poll has already reported final.
C3_MovedJobNeverPolledAgain ==
    pc = "ck_poll" => ~IsTerminal(api_status[pending_jobs[k].batch_id])

\* C4: the ledger file never holds a truncated or partial document.
C4_LedgerFileNeverTruncated == ledger_file.state # "truncated"

\* C5: a process that has stopped after create_batches rewrote the ledger
\* file finds, on reload, every job recorded by such a rewrite, and not moved
\* since, in pending.
C5_StoppedProcessFindsSubmittedJobs ==
    pc = "down" =>
        \A b \in checkpointed :
            b \in BatchIdsOf(load_batch_jobs(ledger_file).value.pending)

\* C6: with a ledger file that is missing or cannot be parsed, startup goes
\* on without an error and with the empty ledger.
C6_UnreadableLedgerIsEmpty ==
    /\ pc # "fatal"
    /\ (pc = "idle" /\ ledger_file.state \in {"missing", "truncated"})
           => batch_jobs = EmptyLedger

\* A process has started on a file that cannot be parsed.
C6_Witness ==
    /\ pc = "idle"
    /\ ledger_file.state = "truncated"
    /\ batch_jobs = EmptyLedger

(***************************************************************************)
(*               Properties of the page fetcher (FetchSpec)                *)
(***************************************************************************)
Returned(p) == wstate[p] \in {"fetched", "done"}

C8_RedirectOverflowIsFailure ==
    \A p \in FetchPageIds :
        /\ redirect_count[p] <= MAX_REDIRECTS
        /\ (Returned(p) /\ last_response[p] = "redirect") =>
              /\ content_info[p].page_raw_content = "NULL"
              /\ is_error[p]
              /\ wstate[p] = "done" => raw_content[p] = "NULL"

IndexInRun(p) == CHOOSE n \in DOMAIN run_pages : run_pages[n] = p
PlaceInDomain(p) ==
    Cardinality({n \in 1..IndexInRun(p) : FetchDomain(run_pages[n]) = FetchDomain(p)})
BatchNumber(p) == (PlaceInDomain(p) - 1) \div MAX_CONCURRENT_PER_DOMAIN
InFlight(p) == wstate[p] \in {"fetching", "fetched"}

\* C10: the pages of one domain start in list order, a page of a later batch
\* of MAX_CONCURRENT_PER_DOMAIN only when every page of the earlier batches
\* of its domain is done; at most MAX_CONCURRENT_PER_DOMAIN pages of a domain
\* are in flight.
C10_DomainBatchesInOrder ==
    /\ \A p, q \in Range(run_pages) :
          (FetchDomain(p) = FetchDomain(q) /\ wstate[q] # "new") =>
              /\ PlaceInDomain(p) < PlaceInDomain(q) => wstate[p] # "new"
              /\ BatchNumber(p) < BatchNumber(q) => wstate[p] = "done"
    /\ \A p \in FetchPageIds :
          Cardinality({q \in FetchPageIds : FetchDomain(q) = FetchDomain(p) /\ InFlight(q)})
              <= MAX_CONCURRENT_PER_DOMAIN

\* A page of a later batch of a domain is in flight.
C10_Witness ==
    \E p, q \in Range(run_pages) :
        /\ FetchDomain(p) = FetchDomain(q)
        /\ BatchNumber(p) < BatchNumber(q)
        /\ InFlight(q)

TwoDomainsInFlight ==
    \E p, q \in FetchPageIds :
        InFlight(p) /\ InFlight(q) /\ FetchDomain(p) # FetchDomain(q)

\* process_pages never has pages of two domains in flight: it waits for the
\* last batch of a domain before it submits the first page of the next.
DomainsNeverOverlap == ~TwoDomainsInFlight

\* C11: given pages of two domains, the worker pool processes the domains in
\* parallel: a run of the fetch stage comes to a state in which pages of two
\* different domains are in flight at the same time.
C11_DomainsInParallel == <>TwoDomainsInFlight

C13_NewChildJudgedInSameRun ==
    dpc \in {"stats", "file_done"} => hist.new_children \subseteq hist.judged

\* C14: when a later discovery run has gone through the file with every
\* fetch succeeding, no child sitemap that was persisted by an interrupted
\* run (or whose fetch failed) is still without a freshness check.
C14_InterruptedChildJudgedLater ==
    (dpc = "file_done" /\ hist.clean) => hist.interrupted = {}

LocatedPages(doc) == {doc.urls[n].loc : n \in {l \in DOMAIN doc.urls : doc.urls[l].loc # "none"}}

\* C15: after a run in which every fetch succeeded, the child sitemaps of a
\* master sitemap whose domain had no sitemap row before the run are marked
\* fresh and every located page of theirs has a row.
C15_NewDomainBootstrap ==
    (dpc = "file_done" /\ hist.clean) =>
        \A m \in MasterUrls :
            get_domain(m) \in hist.new_domains =>
                \A mdoc \in Versions(m) :
                    \A c \in Range(mdoc.sitemaps) :
                        ~ExcludedByPattern(c) =>
                            /\ sitemaps[c].exists
                            /\ sitemaps[c].is_fresh
                            /\ \E d \in Versions(c) :
                                  \A pg \in LocatedPages(d) : RowsWithUrl(news_pages, pg) # {}

AllDatesStale(doc) == \A n \in DOMAIN doc.urls : doc.urls[n].date # "fresh"

\* The process_child_sitemap call for u has fetched the XML of a sitemap
\* whose domain is not new and has returned.
ReturnedNotNew(u) ==
    child[u].state = "done" /\ ~child[u].raised /\ child[u].doc.ok /\ ~child[u].is_new_domain

FreshLocated(doc) ==
    {doc.urls[n].loc : n \in {l \in DOMAIN doc.urls :
                                 doc.urls[l].loc # "none" /\ doc.urls[l].date = "fresh"}}

C18_MasterAlwaysFresh ==
    \A u \in SitemapUrls :
        (sitemaps[u].exists /\ sitemaps[u].is_master) => sitemaps[u].is_fresh

\* C19: the page count a process_child_sitemap call returns is the number
\* of news_pages rows the call inserted.
C19_CountIsRowsInserted ==
    \A u \in SitemapUrls :
        (child[u].state = "done" /\ ~child[u].raised) =>
            child[u].page_count = Cardinality(child[u].inserted)

\* Stage 2 is running and has at least one page in hand.
ExtractionRunning == xpc # "idle"

\* The store row in a history record is one extraction is due for.
ExtractionDue(r) == r.page_raw_content \notin {"norow", "NULL"} /\ r.content = "NULL"

\* C20: extraction is attempted for a page only when its stored raw content
\* is non-null and its extracted content is still null: every page handed to
\* process_page_content_extraction, every call of the extractor and every
\* UPDATE of the content column finds the page's row with raw content
\* non-null and content null.
C20_ExtractionOnlyWhenDue ==
    /\ \A r \in x_hist.submitted \cup x_hist.calls \cup x_hist.updates : ExtractionDue(r)
    /\ \A p \in ExtractPageIds :
           xstate[p] \in {"running", "read"} => ExtractionDue(StoredRow(p))

\* A run of stage 2 has called the extractor and stored text for one page
\* while another page that already has extracted content, and a page
\* without raw content, were left out of the run.
C20_Witness ==
    /\ ExtractionRunning
    /\ \E r \in x_hist.updates : content[r.id_page] = "text"
    /\ \E q \in ExtractPageIds :
           /\ content[q] = "text"
           /\ q \notin Range(x_pages)
    /\ \E q \in ExtractPageIds :
           /\ page_raw_content[q] \in {"norow", "NULL"}
           /\ q \notin Range(x_pages)

\* The task of page p has entered the semaphore in this step.
Acquires(p) == s_task[p] = "waiting" /\ s_task'[p] = "request"

\* C21: in synchronous mode a text of more than MAX_CONTENT_LENGTH tokens is
\* cut to its leading MAX_CONTENT_LENGTH - 1 tokens, in order, and
\* truncated_texts grows by exactly one; a text of at most
\* MAX_CONTENT_LENGTH - 1 tokens is sent unchanged and the counter keeps its
\* value; the text of the requests is the one so prepared.
C21_TruncatedBelowCeiling ==
    [][\A p \in SyncPageIds :
          /\ Acquires(p) =>
                LET tokens == encode(s_text'[p])
                IN /\ Len(tokens) > MAX_CONTENT_LENGTH =>
                          /\ s_sent'[p] = decode(SubSeq(tokens, 1, MAX_CONTENT_LENGTH - 1))
                          /\ Len(encode(s_sent'[p])) = MAX_CONTENT_LENGTH - 1
                          /\ s_stats'.truncated_texts = s_stats.truncated_texts + 1
                   /\ Len(tokens) <= MAX_CONTENT_LENGTH - 1 =>
                          /\ s_sent'[p] = s_text'[p]
                          /\ s_stats'.truncated_texts = s_stats.truncated_texts
          /\ (s_task[p] \in {"request", "backoff"} /\ s_task'[p] \in {"request", "backoff"})
                => s_sent'[p] = s_sent[p]
      ]_vars

\* A request is about to be sent for a text of MAX_CONTENT_LENGTH + 1 tokens
\* whose first token is a pair of characters; the text was cut and counted.
C21_Witness ==
    \E p \in SyncPageIds :
        /\ s_task[p] = "request"
        /\ s_text[p] = <<"a", "b">> \o Bs(MAX_CONTENT_LENGTH)
        /\ s_sent[p] = <<"a", "b">> \o Bs(MAX_CONTENT_LENGTH - 2)
        /\ s_stats.truncated_texts >= 1

\* The pages whose task failed for good.
SyncFailed == {p \in SyncPageIds : s_task[p] = "failed"}

\* C22: a text whose every request fails is requested exactly MAX_RETRIES
\* times, is counted as failed once (failed_embeddings and its domain's
\* failed count), gets no embedding stored and no further request, and the
\* other texts of the run are still requested, and those that succeeded are
\* saved when the run completes.
C22_FailedTextDroppedOnce ==
    /\ \A p \in SyncFailed :
           /\ s_requests[p] = SYNC_MAX_RETRIES
           /\ p \notin s_results
           /\ p \notin content_embeddings
    /\ \A p \in SyncPageIds : s_requests[p] <= SYNC_MAX_RETRIES
    /\ s_stats.failed_embeddings = Cardinality(SyncFailed)
    /\ \A d \in SyncDomains :
           s_stats.domains_failed[d] = Cardinality({p \in SyncFailed : FetchDomain(p) = d})
    /\ spc = "save" =>
           s_results = {p \in Range(SyncBatch(s_contents, s_i)) : s_task[p] = "ok"}
    /\ spc = "done" =>
           \A p \in Range(s_contents) :
               /\ s_task[p] \in {"ok", "failed"}
               /\ s_task[p] = "ok" => p \in content_embeddings

\* A run has completed in which the first text of the first batch failed
\* for good and the second was embedded and saved.
C22_Witness ==
    /\ spc = "done"
    /\ s_task[1] = "failed"
    /\ s_task[2] = "ok"
    /\ 2 \in content_embeddings
    /\ s_stats.failed_embeddings = 1

\* C24: a store error on one item does not abort the stage: after a failed
\* save_embeddings for one batch the following batches are still requested,
\* so a run that has ended has requested every text it selected.
C24_StoreErrorDoesNotStopRun ==
    spc \in {"done", "aborted"} =>
        \A p \in Range(s_contents) : s_requests[p] >= 1

\* C29: at every moment at most CONCURRENCY_LIMIT get_embedding calls hold
\* the semaphore (issuing a request or waiting in backoff).
C29_SemaphoreBound == Cardinality(SemaphoreHolders(s_task)) <= CONCURRENCY_LIMIT

\* The semaphore is full, one holder is in backoff after a failed request,
\* and a task of the batch is waiting to enter.
C29_Witness ==
    /\ Cardinality(SemaphoreHolders(s_task)) = CONCURRENCY_LIMIT
    /\ \E p \in SyncPageIds : s_task[p] = "backoff"
    /\ \E p \in SyncPageIds : s_task[p] = "waiting"

\* The step is one iteration of the loop of check_pending_batches.
CkPollStep ==
    /\ pc = "ck_poll"
    /\ \/ pc' = "ck_poll" /\ k' = k + 1
       \/ pc' = "save_open" /\ ret' = "exit"

\* The job the loop of check_pending_batches is at.
PolledJob == pending_jobs[k]

\* C25: check_pending_batches leaves a pending job untouched whenever its
\* polled status is not completed, failed, expired or cancelled, the failed
\* status request included: an iteration either changes nothing of the
\* ledger and downloads no result, or files the job under the final status
\* the API has just reported; it never does so while the API's status of the
\* job is not final.
C25_PendingJobUntouched ==
    [][CkPollStep =>
          \/ /\ batch_jobs' = batch_jobs
             /\ embeddings' = embeddings
          \/ /\ IsTerminal(api_status'[PolledJob.batch_id])
             /\ \/ /\ batch_jobs'.completed # batch_jobs.completed
                   /\ batch_jobs'.completed[Len(batch_jobs'.completed)].status
                          \in TerminalStatuses
                \/ /\ batch_jobs'.failed # batch_jobs.failed
                   /\ batch_jobs'.failed[Len(batch_jobs'.failed)].status
                          \in TerminalStatuses
      ]_vars

\* The loop has polled its first job, found it still in progress and gone
\* on: the job is in the pending list with the record it had.
C25_Witness ==
    /\ pc = "ck_poll"
    /\ k = 2
    /\ api_status[pending_jobs[1].batch_id] = "in_progress"
    /\ batch_jobs.pending = pending_jobs
    /\ batch_jobs.pending[1].status = "pending"

\* C26: a job whose poll reports completed is moved to the completed list
\* whatever the processing of its results brought, a job whose poll reports
\* failed, expired or cancelled is moved to the failed list without any
\* result being stored, the record's status becomes the polled status, and
\* after the last job the ledger file is rewritten: a successful write
\* holds the ledger with the moves.
C26_TerminalJobMoved ==
    [][/\ (CkPollStep /\ api_status[PolledJob.batch_id] = "in_progress"
              /\ api_status'[PolledJob.batch_id] # "in_progress") =>
             LET status == api_status'[PolledJob.batch_id]
             IN /\ batch_jobs'.pending = RemoveFirst(batch_jobs.pending, PolledJob)
                /\ IF status = "completed"
                   THEN /\ Len(batch_jobs'.completed) = Len(batch_jobs.completed) + 1
                        /\ batch_jobs'.completed[Len(batch_jobs'.completed)].batch_id
                               = PolledJob.batch_id
                        /\ batch_jobs'.completed[Len(batch_jobs'.completed)].status
                               = "completed"
                        /\ batch_jobs'.failed = batch_jobs.failed
                   ELSE /\ batch_jobs'.failed =
                               Append(batch_jobs.failed, [PolledJob EXCEPT !.status = status])
                        /\ batch_jobs'.completed = batch_jobs.completed
                        /\ embeddings' = embeddings
       /\ (CkPollStep /\ k = Len(pending_jobs)) => pc' = "save_open"
       /\ (pc = "save_write" /\ ledger_file' # ledger_file) =>
             ledger_file' = FileHolding(batch_jobs)
      ]_vars

\* check_pending_batches has returned after moving one job to completed
\* with no item processed and one job to failed as expired, and the file
\* holds the ledger with both moves.
C26_Witness ==
    /\ pc = "exit"
    /\ \E n \in DOMAIN batch_jobs.completed : batch_jobs.completed[n].processed_count = 0
    /\ \E n \in DOMAIN batch_jobs.failed : batch_jobs.failed[n].status = "expired"
    /\ batch_jobs.pending = <<>>
    /\ ledger_file = FileHolding(batch_jobs)

\* The lines of the output that carry an embedding, and those that carry an
\* error.
OkLines == {n \in DOMAIN r_output : r_output[n] = "ok"}
ErrorLines == {n \in DOMAIN r_output : r_output[n] = "error"}

\* C23: when the output of a completed job holds error items or unusable
\* lines next to successful items, in any order, and neither the download
\* nor the store fails, process_batch_results counts every error item and
\* upserts the embedding of every successful item.
C23_BadItemDoesNotBlockOthers ==
    (rpc = "done" /\ r_return.raised \notin {"download", "store"}) =>
        /\ OkLines \subseteq r_store
        /\ r_counts.failed = Cardinality(ErrorLines)

\* With error items only (no unusable line) the loop goes on: a call has
\* returned after an error item followed by a successful one, whose
\* embedding is stored.
ErrorItemPassedOver ==
    /\ rpc = "done"
    /\ r_output = <<"error", "ok">>
    /\ r_store = {2}
    /\ r_return = [value |-> 1, raised |-> "none"]

\* C27: in the page fetcher every request carries the cookies of the domain
\* of the URL it goes to: after a redirect to another domain the cookies of
\* the target's domain, not those of the original page's domain.
C27_CookiesFollowRedirect ==
    c_fn = "fetch_page_content" =>
        \A r \in c_sent : r.cookies = r.url

\* C28: a redirect chain of exactly MAX_REDIRECTS hops that ends in a
\* successful response is not aborted: fetch_xml returns the parsed XML of
\* the final response.
C28_FullChainNotAborted ==
    (/\ c_fn = "fetch_xml"
     /\ c_pc = "done"
     /\ c_redirect_count = XML_MAX_REDIRECTS
     /\ c_last = "ok") => c_result = "document"

\* The page fetcher's half of C28: after exactly MAX_REDIRECTS hops and a
\* successful response fetch_page_content returns the body.
PageFullChainNotAborted ==
    (/\ c_fn = "fetch_page_content"
     /\ c_pc = "done"
     /\ c_redirect_count = MAX_REDIRECTS
     /\ c_last = "ok") => c_result = "html"

\* The call for u was abandoned: its XML could not be fetched or parsed, or
\* its processing raised.
Abandoned(u) == child[u].state = "done" /\ (child[u].raised \/ ~child[u].doc.ok)

\* The call for v went through: the verdict was written and, for a fresh
\* sitemap, every located entry dated inside the window has a row.
ProcessedToCompletion(v) ==
    /\ child[v].state = "done"
    /\ v \in hist.judged
    /\ child[v].is_fresh =>
           \A n \in DOMAIN child[v].doc.urls :
               LET e == child[v].doc.urls[n]
               IN (e.loc # "none" /\ e.date = "fresh") => RowsWithUrl(news_pages, e.loc) # {}

\* C30: a child sitemap whose XML cannot be fetched or parsed, or whose
\* processing raises, is abandoned with page count 0, and it prevents
\* neither the other queued child sitemaps of the master from being
\* processed to completion nor the master sitemaps after it in the file
\* from being processed.
C30_FailedChildIsNonFatal ==
    /\ [](/\ \A u \in SitemapUrls :
                Abandoned(u) => child[u].page_count = 0
          /\ dpc = "stats" =>
                \A v \in SitemapUrls :
                    (child[v].state # "idle" /\ ~Abandoned(v)) => ProcessedToCompletion(v))
    /\ [][(dpc = "stats" /\ dpc' # "down") =>
             IF mi < Len(masters_file)
             THEN dpc' = "master" /\ mi' = mi + 1
             ELSE dpc' = "file_done"]_vars

\* The pool of master "m1" has finished: the call for "m2" was abandoned
\* after a failed fetch, the call for its sibling "m3" stored the page of
\* "m3", and a master sitemap is left in the file.
C30_Witness ==
    /\ dpc = "stats"
    /\ masters_file[mi] = "m1"
    /\ mi < Len(masters_file)
    /\ Abandoned("m2")
    /\ ~child["m2"].raised
    /\ child["m3"].state = "done"
    /\ child["m3"].page_count = 1
    /\ RowsWithUrl(news_pages, "r1") # {}

\* C31: when the extraction library returns nothing for a page, the page's
\* content stays null and its is_error flag stays false, and the selection
\* query of the next extraction run returns the page again.
C31_NothingExtractedIsRetried ==
    /\ [](\A p \in x_hist.nothing :
             xstate[p] = "done" =>
                 /\ content[p] = "NULL"
                 /\ ~page_error[p]
                 /\ p \in Range(get_pages_for_content_extraction(
                                    page_raw_content, content, page_error)))
    /\ [][(xpc = "idle" /\ xpc' = "submit") => x_hist.nothing \subseteq Range(x_pages')]_vars

\* A run in which the library returned nothing for a page and the update
\* of its row went through has ended.
C31_Witness ==
    /\ xpc = "idle"
    /\ \E p \in x_hist.nothing : \E r \in x_hist.updates : r.id_page = p

FinalStatuses == {"completed", "failed", "expired", "cancelled"}

\* C32: the blocking batch variant always terminates.  The wait goes on
\* only while no poll has shown completed, failed, expired or cancelled, and
\* the batch of such a poll is returned at once; the wait is given up once
\* wait_time has reached BATCH_MAX_WAIT_TIME, and process_batch then stores
\* no embedding and returns 0 without raising.
C32_BlockingWaitTerminates ==
    /\ <>(b_pc = "done")
    /\ [](/\ b_pc = "loop" => b_batch \notin FinalStatuses
          /\ b_pc = "results" => b_batch \in FinalStatuses
          /\ b_return.ended = "timeout" =>
                /\ b_wait_time >= BATCH_MAX_WAIT_TIME
                /\ b_now >= BATCH_MAX_WAIT_TIME
                /\ b_stored = 0
                /\ b_return.value = 0
                /\ ~b_return.raised)
    /\ [][(b_pc = "loop" /\ b_wait_time >= BATCH_MAX_WAIT_TIME) =>
             (b_pc' = "done" /\ b_return'.ended = "timeout")]_vars

\* The wait was given up after polls that showed an unfinished batch.
C32_Witness ==
    /\ b_pc = "done"
    /\ b_return.ended = "timeout"
    /\ b_batch = "none"

\* The locations of the url entries of a document without a resolvable date.
UndatedLocs(doc) == {doc.urls[n].loc : n \in {l \in DOMAIN doc.urls : doc.urls[l].date = "none"}}

\* C33: no news_pages row inserted by discovery has a null publication
\* date, and process_child_sitemap hands no url entry without a resolvable
\* date to save_news_page, whether or not the domain is new.
C33_NoRowWithoutDate ==
    /\ \A n \in DOMAIN news_pages : news_pages[n].publication_date # "none"
    /\ \A u \in SitemapUrls :
          /\ child[u].last_save.page_url \notin UndatedLocs(child[u].doc)
          /\ child[u].inserted \cap UndatedLocs(child[u].doc) = {}

\* A call has gone through a sitemap with an undated entry and has
\* inserted the row of a dated one.
C33_Witness ==
    \E u \in SitemapUrls :
        /\ child[u].state = "done" /\ ~child[u].raised
        /\ UndatedLocs(child[u].doc) \ {"none"} # {}
        /\ child[u].inserted # {}
        /\ \A pg \in UndatedLocs(child[u].doc) : RowsWithUrl(news_pages, pg) = {}

\* The row of u is one of a sitemap that is not a master and not fresh.
MarkedNotFresh(u) == sitemaps[u].exists /\ ~sitemaps[u].is_master /\ ~sitemaps[u].is_fresh

\* No step changes the row of u, fetches u in process_child_sitemap or
\* inserts a page from it.
LeftAlone(u) ==
    /\ sitemaps'[u] = sitemaps[u]
    /\ child'[u].state \notin {"fetched", "pages"}
    /\ child'[u].inserted \subseteq child[u].inserted

\* C34: for a sitemap that is not a master, is_fresh = false is absorbing:
\* once its row exists with is_fresh = false, every later discovery step
\* skips the URL, so that it is never fetched again, no page is inserted
\* from it and its is_fresh value never changes.
C34_NotFreshIsAbsorbing ==
    [][\A u \in SitemapUrls : MarkedNotFresh(u) => LeftAlone(u)]_vars

\* The same for the sitemaps sitemaps.txt does not list.
NotFreshIsAbsorbingOffTheFile ==
    [][\A u \in SitemapUrls \ Range(masters_file') :
           MarkedNotFresh(u) => LeftAlone(u)]_vars

\* C35: fetch_page_content always terminates.  Every request that does not
\* end the call increases the retry counter, which stays below MAX_RETRIES,
\* or the redirect counter, which stays at most MAX_REDIRECTS, so that at
\* most MAX_RETRIES + MAX_REDIRECTS requests are issued for one page.
C35_PageFetchTerminates ==
    /\ <>(c_pc = "done")
    /\ [](/\ c_attempt <= MAX_RETRIES - 1
          /\ c_redirect_count <= MAX_REDIRECTS
          /\ c_requests <= MAX_RETRIES + MAX_REDIRECTS)
    /\ [][(c_pc = "requesting" /\ c_pc' = "requesting") =>
             \/ c_attempt' = c_attempt + 1 /\ c_redirect_count' = c_redirect_count
             \/ c_attempt' = c_attempt /\ c_redirect_count' = c_redirect_count + 1]_vars

\* A call has ended after MAX_RETRIES + MAX_REDIRECTS requests.
C35_Witness ==
    /\ c_fn = "fetch_page_content"
    /\ c_pc = "done"
    /\ c_requests = MAX_RETRIES + MAX_REDIRECTS

\* Both workers ran the existence check for the same URL and found no row.
RacedOnSameUrl ==
    /\ n_url[1] = n_url[2]
    /\ n_url[1] # "none"
    /\ \A w \in Workers : n_pc[w] \in {"insert", "commit", "done"} /\ n_seen[w] = 0

\* C36: when two pool workers call save_news_page concurrently with the
\* same new URL, both running the existence check before either insert
\* commits, exactly one row results, the losing call is rolled back and
\* returns no id, and no exception escapes.  No URL ever has two rows.
C36_RaceLeavesOneRow ==
    /\ \A url \in RaceUrls : Cardinality(CommittedWithUrl(n_rows, url)) <= 1
    /\ \A w \in Workers : ~n_out[w].raised
    /\ (RacedOnSameUrl /\ \A w \in Workers : n_pc[w] = "done") =>
          /\ Cardinality(CommittedWithUrl(n_rows, n_url[1])) = 1
          /\ \E w \in Workers :
                /\ n_out[w].ended = "inserted" /\ n_out[w].result # 0
                /\ \A v \in Workers \ {w} :
                      n_out[v].ended = "error" /\ n_out[v].rolled_back /\ n_out[v].result = 0

\* Both calls of a race have returned.
C36_Witness ==
    /\ RacedOnSameUrl
    /\ \A w \in Workers : n_pc[w] = "done"
    /\ \E w \in Workers : n_out[w].ended = "error"

\* C37: no operation sets a page's is_error back to false, a page with
\* is_error = true is returned neither by the raw-content selection nor by
\* the extraction selection, and such a page is never fetched again: no
\* later run hands it to a worker or sends a request for it.
C37_ErrorPageNeverFetchedAgain ==
    /\ [](\A p \in FetchPageIds :
             is_error[p] =>
                 /\ p \notin Range(get_pages_for_raw_content(raw_content, is_error))
                 /\ p \notin Range(get_pages_for_content_extraction(
                                       raw_content, [q \in FetchPageIds |-> "NULL"],
                                       is_error)))
    /\ [][\A p \in FetchPageIds :
             is_error[p] =>
                 /\ is_error'[p]
                 /\ wstate'[p] # "fetching"
                 /\ requests'[p] <= requests[p]
                 /\ p \in Range(run_pages') => run_pages' = run_pages]_vars

\* A run has made its selection after the one in which a page failed for
\* good, and the failed page is not in it.
C37_Witness ==
    \E p \in FetchPageIds :
        /\ is_error[p]
        /\ raw_content[p] = "NULL"
        /\ wstate[p] = "new"
        /\ p \notin Range(run_pages)

\* No two jobs of the ledger's pending list share a page id.
PendingDisjoint(ledger) ==
    \A m, n \in DOMAIN ledger.pending :
        m # n => Range(ledger.pending[m].page_ids) \cap Range(ledger.pending[n].page_ids) = {}

\* C38: in every ledger state create_batches and check_pending_batches
\* reach, in memory and in the file, the page_ids of two distinct pending
\* jobs are disjoint.
C38_PendingJobsDisjoint ==
    /\ PendingDisjoint(batch_jobs)
    /\ ledger_file.state = "complete" => PendingDisjoint(ledger_file.data)

\* The file holds two pending jobs, each with a page.
C38_Witness ==
    /\ ledger_file.state = "complete"
    /\ Len(ledger_file.data.pending) >= 2
    /\ \A n \in DOMAIN ledger_file.data.pending : ledger_file.data.pending[n].page_ids # <<>>

\* The iteration has filed the polled job under completed or failed.
JobFiled ==
    /\ CkPollStep
    /\ \/ batch_jobs'.completed # batch_jobs.completed
       \/ batch_jobs'.failed # batch_jobs.failed

\* C39: after check_pending_batches has moved a job out of pending, every
\* page id of the job that still has no embedding row is eligible again:
\* no pending job holds it and get_unprocessed_contents returns it, so that
\* a later create_batches can submit it again.
C39_MovedJobFreesItsPages ==
    [][JobFiled =>
          \A p \in Range(PolledJob.page_ids) :
              p \notin embeddings' =>
                  /\ p \notin PendingIds(batch_jobs')
                  /\ p \in Range(get_unprocessed_contents(batch_jobs', embeddings'))
      ]_vars

\* A page of a job filed under failed has no embedding and is in a pending
\* job again.
C39_Witness ==
    \E n \in DOMAIN batch_jobs.failed :
        \E p \in Range(batch_jobs.failed[n].page_ids) :
            /\ p \notin embeddings
            /\ p \in PendingIds(batch_jobs)

====
